---- MODULE Spec2Model ----
(***************************************************************************)
(* depman: the dependency engine (validate, check, install, verify, apply  *)
(* the environment), the version comparator and the downloader.            *)
(*                                                                         *)
(* Strings whose content the code inspects (versions, command output,      *)
(* constraints, checksums) are sequences of one-character strings.         *)
(***************************************************************************)
EXTENDS Integers, Sequences, FiniteSets, TLC

(***************************************************************************)
(* Characters and small string helpers                                     *)
(***************************************************************************)
Digits == {"0", "1", "2", "3", "4", "5", "6", "7", "8", "9"}

LowerLetters ==
    {"a", "b", "c", "d", "e", "f", "g", "h", "i", "j", "k", "l", "m",
     "n", "o", "p", "q", "r", "s", "t", "u", "v", "w", "x", "y", "z"}

UpperLetters ==
    {"A", "B", "C", "D", "E", "F", "G", "H", "I", "J", "K", "L", "M",
     "N", "O", "P", "Q", "R", "S", "T", "U", "V", "W", "X", "Y", "Z"}

\* [0-9A-Za-z-], the identifier characters of the semver grammar
IdentChars == Digits \cup LowerLetters \cup UpperLetters \cup {"-"}

DigitVal(c) ==
    CASE c = "0" -> 0 [] c = "1" -> 1 [] c = "2" -> 2 [] c = "3" -> 3
      [] c = "4" -> 4 [] c = "5" -> 5 [] c = "6" -> 6 [] c = "7" -> 7
      [] c = "8" -> 8 [] c = "9" -> 9

\* the characters s[i..j-1]
Slice(s, i, j) == IF j <= i THEN << >> ELSE SubSeq(s, i, j - 1)

\* first index >= i whose character is not in cs (Len(s)+1 when there is none)
RECURSIVE RunEnd(_, _, _)
RunEnd(s, i, cs) ==
    IF i <= Len(s) /\ s[i] \in cs THEN RunEnd(s, i + 1, cs) ELSE i

\* the decimal value of the digit string d
RECURSIVE NumVal(_)
NumVal(d) ==
    IF d = << >> THEN 0
    ELSE 10 * NumVal(SubSeq(d, 1, Len(d) - 1)) + DigitVal(d[Len(d)])

WhiteSpace == {" ", "\t", "\n", "\r"}

\* strings.TrimSpace
RECURSIVE TrimLeft(_)
TrimLeft(s) == IF s # << >> /\ s[1] \in WhiteSpace THEN TrimLeft(Tail(s)) ELSE s

RECURSIVE TrimRight(_)
TrimRight(s) ==
    IF s # << >> /\ s[Len(s)] \in WhiteSpace THEN TrimRight(SubSeq(s, 1, Len(s) - 1)) ELSE s

TrimSpace(s) == TrimRight(TrimLeft(s))

\* strings.ToLower on one character and on a string
LowerOf(c) ==
    CASE c = "A" -> "a" [] c = "B" -> "b" [] c = "C" -> "c" [] c = "D" -> "d"
      [] c = "E" -> "e" [] c = "F" -> "f" [] c = "G" -> "g" [] c = "H" -> "h"
      [] c = "I" -> "i" [] c = "J" -> "j" [] c = "K" -> "k" [] c = "L" -> "l"
      [] c = "M" -> "m" [] c = "N" -> "n" [] c = "O" -> "o" [] c = "P" -> "p"
      [] c = "Q" -> "q" [] c = "R" -> "r" [] c = "S" -> "s" [] c = "T" -> "t"
      [] c = "U" -> "u" [] c = "V" -> "v" [] c = "W" -> "w" [] c = "X" -> "x"
      [] c = "Y" -> "y" [] c = "Z" -> "z"
      [] OTHER -> c

ToLower(s) == [i \in 1..Len(s) |-> LowerOf(s[i])]

(***************************************************************************)
(* semver.NewVersion (github.com/Masterminds/semver/v3): the whole string  *)
(* must match  v?N(.N)?(.N)?(-pre)?(+meta)?  ; missing minor and patch are *)
(* taken as 0.  Operators take the values computed so far as parameters.   *)
(***************************************************************************)
NoVersion == [ok |-> FALSE, major |-> 0, minor |-> 0, patch |-> 0, pre |-> << >>]

\* an optional ".N" group starting at i: <<value, next index>>
DotNumTo(s, i, e) ==
    IF i <= Len(s) /\ s[i] = "." /\ e > i + 1
    THEN <<NumVal(Slice(s, i + 1, e)), e>>
    ELSE <<0, i>>

DotNum(s, i) == DotNumTo(s, i, RunEnd(s, i + 1, Digits))

\* a dot-separated identifier list starting at i: index after it, or 0 when the
\* text at i is not one (an empty identifier)
RECURSIVE IdentListEnd(_, _)
IdentListFrom(s, i, e) ==
    IF e = i THEN 0
    ELSE IF e <= Len(s) /\ s[e] = "." THEN IdentListEnd(s, e + 1)
    ELSE e

IdentListEnd(s, i) == IdentListFrom(s, i, RunEnd(s, i, IdentChars))

\* an optional group introduced by `mark` at i: <<text, next index>>
\* (next index 0: the mark is there but no identifier list follows)
GroupTo(s, i, e) == IF e = 0 THEN <<(<< >>), 0>> ELSE <<Slice(s, i + 1, e), e>>

MarkedGroup(s, i, mark) ==
    IF i <= Len(s) /\ s[i] = mark
    THEN GroupTo(s, i, IdentListEnd(s, i + 1))
    ELSE <<(<< >>), i>>

ParseMeta(s, major, minor, patch, pre, met) ==
    IF met[2] # Len(s) + 1 THEN NoVersion
    ELSE [ok |-> TRUE, major |-> major, minor |-> minor, patch |-> patch, pre |-> pre]

ParsePre(s, major, minor, patch, pre) ==
    IF pre[2] = 0 THEN NoVersion
    ELSE ParseMeta(s, major, minor, patch, pre[1], MarkedGroup(s, pre[2], "+"))

ParsePatch(s, major, minor, pt) ==
    ParsePre(s, major, minor, pt[1], MarkedGroup(s, pt[2], "-"))

ParseMinor(s, major, mn) == ParsePatch(s, major, mn[1], DotNum(s, mn[2]))

ParseMajor(s, i0, e1) ==
    IF e1 = i0 THEN NoVersion
    ELSE ParseMinor(s, NumVal(Slice(s, i0, e1)), DotNum(s, e1))

ParseFrom(s, i0) == ParseMajor(s, i0, RunEnd(s, i0, Digits))

NewVersion(s) == ParseFrom(s, IF s # << >> /\ s[1] = "v" THEN 2 ELSE 1)

\* Version.Equal: same major, minor, patch and prerelease (metadata is ignored)
VersionEqual(a, b) ==
    /\ a.major = b.major /\ a.minor = b.minor /\ a.patch = b.patch
    /\ a.pre = b.pre

(***************************************************************************)
(* UpdateType and CheckVersionUpdate                                       *)
(***************************************************************************)
NoUpdate == "NoUpdate"
PatchUpdate == "PatchUpdate"
MinorUpdate == "MinorUpdate"
MajorUpdate == "MajorUpdate"
UpdateTypes == {NoUpdate, PatchUpdate, MinorUpdate, MajorUpdate}

\* the error kinds of the model ("" is Go's nil error)
NoError == ""

\* the comparison with the patch numbers looked at before the minor numbers
ComparePatchFirst(current, required) ==
    IF ~current.ok THEN [update |-> NoUpdate, err |-> "InvalidVersion"]
    ELSE IF ~required.ok THEN [update |-> NoUpdate, err |-> "InvalidVersion"]
    ELSE IF VersionEqual(current, required) THEN [update |-> NoUpdate, err |-> NoError]
    ELSE IF current.major < required.major THEN [update |-> MajorUpdate, err |-> NoError]
    ELSE IF current.patch < required.patch THEN [update |-> PatchUpdate, err |-> NoError]
    ELSE IF current.minor < required.minor THEN [update |-> MinorUpdate, err |-> NoError]
    ELSE [update |-> NoUpdate, err |-> NoError]

\* the comparison of CheckVersionUpdate once both versions are parsed
CompareVersions(current, required) ==
    IF ~current.ok THEN [update |-> NoUpdate, err |-> "InvalidVersion"]
    ELSE IF ~required.ok THEN [update |-> NoUpdate, err |-> "InvalidVersion"]
    ELSE IF VersionEqual(current, required) THEN [update |-> NoUpdate, err |-> NoError]
    ELSE IF current.major < required.major THEN [update |-> MajorUpdate, err |-> NoError]
    ELSE IF current.minor < required.minor THEN [update |-> MinorUpdate, err |-> NoError]
    ELSE IF current.patch < required.patch THEN [update |-> PatchUpdate, err |-> NoError]
    ELSE [update |-> NoUpdate, err |-> NoError]

CheckVersionUpdate(currentVersion, requiredVersion) ==
    CompareVersions(NewVersion(currentVersion), NewVersion(requiredVersion))

(***************************************************************************)
(* Version order (Version.Compare) and constraints (semver.NewConstraint,  *)
(* Constraints.Check).  The constraint syntax covered is a list of terms   *)
(* separated by one space or one comma (all must hold), each an optional   *)
(* operator  = != > < >= <= ~ ^  followed by a version.                    *)
(***************************************************************************)
AsciiOrder ==
    <<"-", "0", "1", "2", "3", "4", "5", "6", "7", "8", "9",
      "A", "B", "C", "D", "E", "F", "G", "H", "I", "J", "K", "L", "M",
      "N", "O", "P", "Q", "R", "S", "T", "U", "V", "W", "X", "Y", "Z",
      "a", "b", "c", "d", "e", "f", "g", "h", "i", "j", "k", "l", "m",
      "n", "o", "p", "q", "r", "s", "t", "u", "v", "w", "x", "y", "z">>

CharRank(c) ==
    IF \E i \in 1..Len(AsciiOrder) : AsciiOrder[i] = c
    THEN CHOOSE i \in 1..Len(AsciiOrder) : AsciiOrder[i] = c
    ELSE 0

\* -1, 0 or 1: lexical order of two prerelease strings
RECURSIVE CompareText(_, _)
CompareText(a, b) ==
    IF a = << >> /\ b = << >> THEN 0
    ELSE IF a = << >> THEN -1
    ELSE IF b = << >> THEN 1
    ELSE IF CharRank(a[1]) < CharRank(b[1]) THEN -1
    ELSE IF CharRank(a[1]) > CharRank(b[1]) THEN 1
    ELSE CompareText(Tail(a), Tail(b))

\* a version without prerelease is newer than the same version with one
ComparePrerelease(a, b) ==
    IF a = b THEN 0
    ELSE IF a = << >> THEN 1
    ELSE IF b = << >> THEN -1
    ELSE CompareText(a, b)

VersionCompare(a, b) ==
    IF a.major # b.major THEN (IF a.major < b.major THEN -1 ELSE 1)
    ELSE IF a.minor # b.minor THEN (IF a.minor < b.minor THEN -1 ELSE 1)
    ELSE IF a.patch # b.patch THEN (IF a.patch < b.patch THEN -1 ELSE 1)
    ELSE ComparePrerelease(a.pre, b.pre)

TermChars == IdentChars \cup {".", "+", "=", "!", ">", "<", "~", "^"}

\* the operator a term starts with ("" when it starts with none)
TermOp(t) ==
    IF Len(t) >= 2 /\ (t[1] \o t[2]) \in {"!=", ">=", "<="} THEN t[1] \o t[2]
    ELSE IF Len(t) >= 1 /\ t[1] \in {"=", ">", "<", "~", "^"} THEN t[1]
    ELSE ""

TermOpLen(op) == IF op \in {"!=", ">=", "<="} THEN 2 ELSE IF op = "" THEN 0 ELSE 1

\* how many of major, minor, patch the version text spells out
PartsMinor(s, e1, mn) ==
    IF mn[2] = e1 THEN 1 ELSE IF DotNum(s, mn[2])[2] = mn[2] THEN 2 ELSE 3

PartsFrom(s, e1) == PartsMinor(s, e1, DotNum(s, e1))

VersionParts(s) ==
    PartsFrom(s, RunEnd(s, IF s # << >> /\ s[1] = "v" THEN 2 ELSE 1, Digits))

\* one term: [ok, op, ver, parts]
TermOf(op, ver, parts) == [ok |-> ver.ok, op |-> op, ver |-> ver, parts |-> parts]

ParseTermText(op, text) == TermOf(op, NewVersion(text), VersionParts(text))

ParseTermOp(t, op) == ParseTermText(op, Slice(t, TermOpLen(op) + 1, Len(t) + 1))

ParseTerm(t) == ParseTermOp(t, TermOp(t))

\* the terms of a constraint string, split at spaces and commas
RECURSIVE SplitTerms(_)
SplitTermsAt(s, e) ==
    IF e > Len(s) THEN <<s>>
    ELSE <<Slice(s, 1, e)>> \o SplitTerms(Slice(s, e + 1, Len(s) + 1))

SplitTerms(s) == IF s = << >> THEN << >> ELSE SplitTermsAt(s, RunEnd(s, 1, TermChars))

\* semver.NewConstraint: [ok, terms]
ConstraintOf(s, terms) ==
    [ok |-> /\ s # << >>
            /\ \A i \in 1..Len(terms) : terms[i].ok
            /\ \A k \in 1..Len(s) : s[k] \in TermChars \cup {" ", ","},
     terms |-> terms]

ParseTerms(raw) == [i \in 1..Len(raw) |-> ParseTerm(raw[i])]

NewConstraint(s) == ConstraintOf(s, ParseTerms(SplitTerms(s)))

\* the exclusive upper end of a tilde or caret range
TildeUpper(t) ==
    IF t.parts = 1
    THEN [ok |-> TRUE, major |-> t.ver.major + 1, minor |-> 0, patch |-> 0, pre |-> << >>]
    ELSE [ok |-> TRUE, major |-> t.ver.major, minor |-> t.ver.minor + 1, patch |-> 0,
          pre |-> << >>]

CaretUpper(t) ==
    IF t.ver.major > 0 \/ t.parts = 1
    THEN [ok |-> TRUE, major |-> t.ver.major + 1, minor |-> 0, patch |-> 0, pre |-> << >>]
    ELSE IF t.ver.minor > 0 \/ t.parts = 2
    THEN [ok |-> TRUE, major |-> 0, minor |-> t.ver.minor + 1, patch |-> 0, pre |-> << >>]
    ELSE [ok |-> TRUE, major |-> 0, minor |-> 0, patch |-> t.ver.patch + 1, pre |-> << >>]

\* a prerelease version satisfies only a term that names a prerelease
TermHolds(t, v, c) ==
    IF v.pre # << >> /\ t.ver.pre = << >> THEN FALSE
    ELSE CASE t.op \in {"", "="} -> c = 0
           [] t.op = "!="        -> c # 0
           [] t.op = ">"         -> c > 0
           [] t.op = "<"         -> c < 0
           [] t.op = ">="        -> c >= 0
           [] t.op = "<="        -> c <= 0
           [] t.op = "~"         -> c >= 0 /\ VersionCompare(v, TildeUpper(t)) < 0
           [] t.op = "^"         -> c >= 0 /\ VersionCompare(v, CaretUpper(t)) < 0

TermCheck(t, v) == TermHolds(t, v, VersionCompare(v, t.ver))

ConstraintCheck(c, v) == \A i \in 1..Len(c.terms) : TermCheck(c.terms[i], v)

\* IsVersionCompatible taking a constraint that does not parse as satisfied
CheckParsedLenient(version, constraint) ==
    IF ~version.ok THEN [compatible |-> FALSE, err |-> "InvalidVersion"]
    ELSE IF ~constraint.ok THEN [compatible |-> TRUE, err |-> NoError]
    ELSE [compatible |-> ConstraintCheck(constraint, version), err |-> NoError]

\* IsVersionCompatible once the version and the constraint are parsed
CheckParsed(version, constraint) ==
    IF ~version.ok THEN [compatible |-> FALSE, err |-> "InvalidVersion"]
    ELSE IF ~constraint.ok THEN [compatible |-> FALSE, err |-> "InvalidConstraint"]
    ELSE [compatible |-> ConstraintCheck(constraint, version), err |-> NoError]

IsVersionCompatible(currentVersion, constraintStr) ==
    CheckParsed(NewVersion(currentVersion), NewConstraint(constraintStr))

(***************************************************************************)
(* extractVersion: three patterns tried in order, the first capture wins   *)
(***************************************************************************)
\* \d+\.\d+\.\d+ at i: the index after the match, 0 when there is none
Core3(e2, e3) == IF e3 > e2 + 1 THEN e3 ELSE 0

Core2(s, e1, e2) ==
    IF e2 > e1 + 1 /\ e2 <= Len(s) /\ s[e2] = "."
    THEN Core3(e2, RunEnd(s, e2 + 1, Digits)) ELSE 0

Core1(s, i, e1) ==
    IF e1 > i /\ e1 <= Len(s) /\ s[e1] = "."
    THEN Core2(s, e1, RunEnd(s, e1 + 1, Digits)) ELSE 0

CoreEnd(s, i) == Core1(s, i, RunEnd(s, i, Digits))

\* v?(\d+\.\d+\.\d+) at i: <<start of the capture, index after it>> or <<0, 0>>
Capture(j, e) == IF e = 0 THEN <<0, 0>> ELSE <<j, e>>

VCoreFrom(s, j) == Capture(j, CoreEnd(s, j))

\* v?(\d+\.\d+\.\d+) at i with the v taken into the capture
VCoreWithPrefix(s, i) ==
    Capture(i, CoreEnd(s, IF i <= Len(s) /\ s[i] = "v" THEN i + 1 ELSE i))

VCoreAt(s, i) == VCoreFrom(s, IF i <= Len(s) /\ s[i] = "v" THEN i + 1 ELSE i)

\* pattern 1 at i
Pattern1At(s, i) == VCoreAt(s, i)

\* pattern 2 at i: version\s+v?(\d+\.\d+\.\d+)
Pattern2From(s, i, w) == IF w > i + 7 THEN VCoreAt(s, w) ELSE <<0, 0>>

Pattern2At(s, i) ==
    IF i + 6 <= Len(s) /\ SubSeq(s, i, i + 6) = <<"v", "e", "r", "s", "i", "o", "n">>
    THEN Pattern2From(s, i, RunEnd(s, i + 7, WhiteSpace))
    ELSE <<0, 0>>

\* pattern 3 at i: v?(\d+\.\d+\.\d+)[\-+]([0-9A-Za-z-]+)
Pattern3Of(s, m) ==
    IF /\ m[1] # 0 /\ m[2] <= Len(s) /\ s[m[2]] \in {"-", "+"}
       /\ RunEnd(s, m[2] + 1, IdentChars) > m[2] + 1
    THEN m ELSE <<0, 0>>

Pattern3At(s, i) == Pattern3Of(s, VCoreAt(s, i))

PatternAt(k, s, i) ==
    CASE k = 1 -> Pattern1At(s, i) [] k = 2 -> Pattern2At(s, i) [] k = 3 -> Pattern3At(s, i)

\* FindStringSubmatch: the capture of the leftmost match of pattern k, or <<0, 0>>
LeftmostOf(k, s, starts) ==
    IF starts = {} THEN <<0, 0>>
    ELSE PatternAt(k, s, CHOOSE i \in starts : \A j \in starts : i <= j)

FindSubmatch(k, s) ==
    LeftmostOf(k, s, {i \in 1..Len(s) : PatternAt(k, s, i)[1] # 0})

FirstCapture(output, m1, m2, m3) ==
    IF m1[1] # 0 THEN Slice(output, m1[1], m1[2])
    ELSE IF m2[1] # 0 THEN Slice(output, m2[1], m2[2])
    ELSE IF m3[1] # 0 THEN Slice(output, m3[1], m3[2])
    ELSE output

extractVersion(output) ==
    FirstCapture(output, FindSubmatch(1, output), FindSubmatch(2, output),
                 FindSubmatch(3, output))

(***************************************************************************)
(* Downloader.  A URL and a path are sequences of tokens (directory names, *)
(* "/" and file names); a response body is a sequence of bytes.  SHA-256   *)
(* is stood for by an injective digest of the same length as its input.    *)
(***************************************************************************)
HexDigits == <<"0", "1", "2", "3", "4", "5", "6", "7", "8", "9",
               "a", "b", "c", "d", "e", "f">>

\* hex.EncodeToString: lower-case digits, two per byte
RECURSIVE EncodeToString(_)
EncodeToString(bytes) ==
    IF bytes = << >> THEN << >>
    ELSE <<HexDigits[(bytes[1] \div 16) + 1], HexDigits[(bytes[1] % 16) + 1]>>
         \o EncodeToString(Tail(bytes))

\* hasher.Sum(nil) over the bytes written so far
Sha256Sum(bytes) == [i \in 1..Len(bytes) |-> (bytes[i] * 7 + i) % 256]

\* strings.Split(s, sep) for a one-character separator
RECURSIVE Split(_, _)
SplitAt(s, sep, e) ==
    IF e > Len(s) THEN <<s>>
    ELSE <<Slice(s, 1, e)>> \o Split(Slice(s, e + 1, Len(s) + 1), sep)

Split(s, sep) == SplitAt(s, sep, RunEnd(s, 1, {s[i] : i \in 1..Len(s)} \ {sep}))

\* strings.EqualFold
EqualFold(a, b) == ToLower(a) = ToLower(b)

\* filepath.Base of a URL and filepath.Join(dir, name)
Base(url) == IF url = << >> THEN "." ELSE url[Len(url)]

JoinPath(dir, name) == dir \o <<"/", name>>

StatusOK == 200

\* a response status other than 200 (201 Created)
OtherStatus == StatusOK + 1

NoFile == [exists |-> FALSE, data |-> << >>]

EmptyFile == [exists |-> TRUE, data |-> << >>]

NoResult == [FilePath |-> << >>, Size |-> 0, Checksum |-> << >>]

\* what Download hands back: the error kind, the Result, and the file it
\* leaves at destPath
Outcome(kind, res, destPath, file) ==
    [err |-> kind, result |-> res, path |-> destPath, file |-> file]

\* the end of Download: the stream is on disk, `actual` is its digest; on a
\* mismatch os.Remove is called on the still open file and its error dropped
DownloadVerify(opts, net, destPath, parts, copied, actual) ==
    IF opts.Checksum # << >> /\ ~EqualFold(actual, parts[2])
    THEN Outcome("ChecksumMismatch", NoResult, destPath,
                 IF net.removeFails THEN [exists |-> TRUE, data |-> copied] ELSE NoFile)
    ELSE Outcome(NoError,
                 [FilePath |-> destPath, Size |-> Len(copied),
                  Checksum |-> IF opts.Checksum # << >> THEN actual ELSE << >>],
                 destPath, [exists |-> TRUE, data |-> copied])

\* Download from os.MkdirAll on
DownloadTo(opts, net, destPath, parts, copied) ==
    IF net.mkdirFails THEN Outcome("MkdirFailed", NoResult, destPath, NoFile)
    ELSE IF net.createFails THEN Outcome("CreateFailed", NoResult, destPath, NoFile)
    ELSE IF net.getFails THEN Outcome("DownloadError", NoResult, destPath, EmptyFile)
    ELSE IF net.status # StatusOK THEN Outcome("BadStatus", NoResult, destPath, EmptyFile)
    ELSE IF opts.Checksum # << >> /\ Len(parts) # 2
         THEN Outcome("InvalidChecksumFormat", NoResult, destPath, EmptyFile)
    ELSE IF opts.Checksum # << >> /\ ToLower(parts[1]) # <<"s", "h", "a", "2", "5", "6">>
         THEN Outcome("UnsupportedAlgorithm", NoResult, destPath, EmptyFile)
    ELSE IF net.written <= Len(net.body)
         THEN Outcome("WriteFailed", NoResult, destPath, [exists |-> TRUE, data |-> copied])
    ELSE DownloadVerify(opts, net, destPath, parts, copied,
                        EncodeToString(Sha256Sum(copied)))

\* Download(opts) against one behaviour of the outside world:
\*   net.mkdirFails   os.MkdirAll fails      net.removeFails  os.Remove fails
\*   net.createFails  os.Create fails        net.getFails   http.Get fails
\*   net.status       the response status    net.body       the response body
\*   net.written      how many body bytes reach the file before io.Copy fails
\*                    (Len(net.body) + 1: the copy succeeds)
Download(opts, net) ==
    DownloadTo(opts, net,
               JoinPath(opts.DestDir,
                        IF opts.Filename = "" THEN Base(opts.URL) ELSE opts.Filename),
               Split(opts.Checksum, ":"),
               IF net.written > Len(net.body) THEN net.body
               ELSE SubSeq(net.body, 1, net.written))

(***************************************************************************)
(* Environment accumulator (internal/environment).  A value is a sequence  *)
(* of tokens; "{NAME}" tokens are placeholders, ":" is the path list       *)
(* separator and "/" the path separator.  The process environment is the   *)
(* list os.Environ() returns: records [name, value] in the order they were *)
(* set.                                                                    *)
(***************************************************************************)
PathListSeparator == ":"

Placeholder(name) == "{" \o name \o "}"

\* strings.ReplaceAll(text, token, value)
RECURSIVE ReplaceAll(_, _, _)
ReplaceAll(text, token, value) ==
    IF text = << >> THEN << >>
    ELSE (IF text[1] = token THEN value ELSE <<text[1]>>)
         \o ReplaceAll(Tail(text), token, value)

\* filepath.Clean: no repeated and no trailing separator, "." for the empty path
RECURSIVE Clean(_)
CleanAt(path, i) == Clean(SubSeq(path, 1, i) \o SubSeq(path, i + 2, Len(path)))

Clean(path) ==
    IF path = << >> THEN <<".">>
    ELSE IF Len(path) > 1 /\ path[Len(path)] = "/" THEN Clean(SubSeq(path, 1, Len(path) - 1))
    ELSE IF \E i \in 1..(Len(path) - 1) : path[i] = "/" /\ path[i + 1] = "/"
         THEN CleanAt(path, CHOOSE k \in 1..(Len(path) - 1) :
                                path[k] = "/" /\ path[k + 1] = "/")
    ELSE path

NewEnvManager == [Variables |-> << >>, Paths |-> << >>]

\* Variables is kept as a sequence of [name, value] with one entry per name;
\* the order of the sequence carries no meaning (a Go map)
HasVar(vars, key) == \E i \in 1..Len(vars) : vars[i].name = key

VarIndex(vars, key) == CHOOSE i \in 1..Len(vars) : vars[i].name = key

SetVar(vars, key, value) ==
    IF HasVar(vars, key)
    THEN [vars EXCEPT ![VarIndex(vars, key)] = [name |-> key, value |-> value]]
    ELSE Append(vars, [name |-> key, value |-> value])

AddVariable(em, key, value) == [em EXCEPT !.Variables = SetVar(em.Variables, key, value)]

\* AddPath without the test for a path already added
AddCleanPathAgain(em, p) == [em EXCEPT !.Paths = Append(em.Paths, p)]

AddCleanPath(em, p) ==
    IF \E i \in 1..Len(em.Paths) : em.Paths[i] = p THEN em
    ELSE [em EXCEPT !.Paths = Append(em.Paths, p)]

AddPath(em, path) == AddCleanPath(em, Clean(path))

\* os.Getenv and os.Setenv on the process environment
Getenv(env, key) == IF HasVar(env, key) THEN env[VarIndex(env, key)].value ELSE << >>

SetenvFails(key) == key = ""

Setenv(env, key, value) == SetVar(env, key, value)

\* the permutations of 1..n: the orders in which a Go map of n keys is ranged over
Orders(n) == {o \in [1..n -> 1..n] : \A i, j \in 1..n : i # j => o[i] # o[j]}

\* replace the placeholders of pairs[order[k]], k = from..Len(order), one after another
RECURSIVE ReplaceEach(_, _, _, _)
ReplaceEach(text, pairs, order, from) ==
    IF from > Len(order) THEN text
    ELSE ReplaceEach(ReplaceAll(text, Placeholder(pairs[order[from]].name),
                                pairs[order[from]].value),
                     pairs, order, from + 1)

\* ExpandVariables with the accumulator's variables ranged over in `order`
ExpandVariables(em, env, order, text) ==
    ReplaceEach(ReplaceEach(text, em.Variables, order, 1),
                env, [i \in 1..Len(env) |-> i], 1)

\* strings.Join(paths, ":")
RECURSIVE JoinPaths(_)
JoinPaths(paths) ==
    IF paths = << >> THEN << >>
    ELSE IF Len(paths) = 1 THEN paths[1]
    ELSE paths[1] \o <<PathListSeparator>> \o JoinPaths(Tail(paths))

\* the Setenv loop of ApplyToCurrentProcess from position `from` of `order`:
\* [env, err]; the first failing Setenv ends it
RECURSIVE SetEach(_, _, _, _)
SetEach(env, vars, order, from) ==
    IF from > Len(order) THEN [env |-> env, err |-> NoError]
    ELSE IF SetenvFails(vars[order[from]].name)
         THEN [env |-> env, err |-> "EnvironmentApplyError"]
    ELSE SetEach(Setenv(env, vars[order[from]].name, vars[order[from]].value),
                 vars, order, from + 1)

\* the PATH update of ApplyToCurrentProcess
NewPath(pathsToAdd, currentPath) ==
    IF currentPath # << >> THEN pathsToAdd \o <<PathListSeparator>> \o currentPath
    ELSE pathsToAdd

ApplyPath(em, set) ==
    IF set.err # NoError THEN set
    ELSE IF Len(em.Paths) > 0
         THEN [env |-> Setenv(set.env, "PATH",
                              NewPath(JoinPaths(em.Paths), Getenv(set.env, "PATH"))),
               err |-> NoError]
    ELSE set

ApplyToCurrentProcess(em, env, order) == ApplyPath(em, SetEach(env, em.Variables, order, 1))

\* strings.ToUpper of a variable name, for the names in use
UpperName(name) == IF name \in {"Path", "path"} THEN "PATH" ELSE name

\* GetUpdatedEnvironment: the name PATH goes by.  On Windows it is the name of
\* the first entry of the environment that reads PATH in upper case
RECURSIVE PathVarFrom(_, _)
PathVarFrom(env, i) ==
    IF i > Len(env) THEN "PATH"
    ELSE IF UpperName(env[i].name) = "PATH" THEN env[i].name
    ELSE PathVarFrom(env, i + 1)

PathVar(goos, env) == IF goos = "windows" THEN PathVarFrom(env, 1) ELSE "PATH"

\* os.Getenv as GetUpdatedEnvironment sees it: Windows ignores the case of a name
RECURSIVE GetenvFold(_, _, _)
GetenvFold(env, key, i) ==
    IF i > Len(env) THEN << >>
    ELSE IF UpperName(env[i].name) = UpperName(key) THEN env[i].value
    ELSE GetenvFold(env, key, i + 1)

GetenvOn(goos, env, key) ==
    IF goos = "windows" THEN GetenvFold(env, key, 1) ELSE Getenv(env, key)

\* the PATH entry: present when paths were accumulated
UpdatedPath(em, env, goos) ==
    IF Len(em.Paths) > 0
    THEN <<[name |-> PathVar(goos, env),
            value |-> NewPath(JoinPaths(em.Paths), GetenvOn(goos, env, PathVar(goos, env)))]>>
    ELSE << >>

\* the accumulated variables in the order the map is ranged over
UpdatedVariables(em, order) == [i \in 1..Len(order) |-> em.Variables[order[i]]]

\* the names marked in `updated`
UpdatedNames(em, env, goos) ==
    {em.Variables[i].name : i \in 1..Len(em.Variables)}
        \cup (IF Len(em.Paths) > 0 THEN {PathVar(goos, env)} ELSE {})

\* the entries of the environment whose name is not marked, from position i on
RECURSIVE Unchanged(_, _, _)
Unchanged(env, updated, i) ==
    IF i > Len(env) THEN << >>
    ELSE (IF env[i].name \in updated THEN << >> ELSE <<env[i]>>)
         \o Unchanged(env, updated, i + 1)

GetUpdatedEnvironment(em, env, order, goos) ==
    (UpdatedPath(em, env, goos) \o UpdatedVariables(em, order))
        \o Unchanged(env, UpdatedNames(em, env, goos), 1)

(***************************************************************************)
(* Manifest data and per-dependency operations of the engine               *)
(***************************************************************************)
NewStatus(name) ==
    [Name |-> name, Installed |-> FALSE, CurrentVersion |-> << >>,
     RequiredUpdate |-> NoUpdate, Compatible |-> FALSE, Error |-> NoError]

\* GetPlatformConfig: [ok, config]
NoPlatformConfig ==
    [URL |-> << >>, Checksum |-> << >>, Install |-> << >>, Verify |-> << >>]

\* GetPlatformConfig falling back to the linux bundle
GetPlatformConfigOrLinux(platform, dep) ==
    IF platform \in DOMAIN dep.Platforms
    THEN [ok |-> TRUE, config |-> dep.Platforms[platform]]
    ELSE IF "linux" \in DOMAIN dep.Platforms
    THEN [ok |-> TRUE, config |-> dep.Platforms["linux"]]
    ELSE [ok |-> FALSE, config |-> NoPlatformConfig]

GetPlatformConfig(platform, dep) ==
    IF platform \in DOMAIN dep.Platforms
    THEN [ok |-> TRUE, config |-> dep.Platforms[platform]]
    ELSE [ok |-> FALSE, config |-> NoPlatformConfig]

\* NewManager: Platform is runtime.GOOS, then each option is applied in turn;
\* opts holds the platforms of the WithPlatform options given
RECURSIVE ApplyOptions(_, _, _)
ApplyOptions(platform, opts, i) ==
    IF i > Len(opts) THEN platform ELSE ApplyOptions(opts[i], opts, i + 1)

NewManagerPlatform(goos, opts) == ApplyOptions(goos, opts, 1)

\* ValidateVersion without the test of the required version
ValidateVersionConstraintOnly(dep) ==
    IF dep.Version.Constraint # << >> /\ ~NewConstraint(dep.Version.Constraint).ok
    THEN <<"InvalidConstraint">> ELSE << >>

\* validateDependencies: the sequence of error kinds it collects
ValidateVersion(dep) ==
    (IF dep.Version.Required = << >> THEN <<"NoRequiredVersion">> ELSE << >>)
    \o (IF dep.Version.Constraint # << >> /\ ~NewConstraint(dep.Version.Constraint).ok
        THEN <<"InvalidConstraint">> ELSE << >>)

RECURSIVE ValidateEach(_, _, _)
ValidateEach(platform, deps, i) ==
    IF i > Len(deps) THEN << >>
    ELSE (IF platform \notin DOMAIN deps[i].Platforms THEN <<"NoPlatform">>
          ELSE ValidateVersion(deps[i]))
         \o ValidateEach(platform, deps, i + 1)

validateDependencies(platform, deps) ==
    IF Len(deps) = 0 THEN <<"NoDependencies">> ELSE ValidateEach(platform, deps, 1)

\* VerifyFailure with the error returned but not stored in the status
VerifyFailureUnrecorded(name, kind, ran) ==
    [status |-> [Name |-> name, Installed |-> FALSE, CurrentVersion |-> << >>,
                 RequiredUpdate |-> NoUpdate, Compatible |-> FALSE, Error |-> NoError],
     err |-> kind, ran |-> ran]

\* what VerifyDependency returns: [status, err, ran]; ran tells whether a
\* subprocess was started
VerifyFailure(name, kind, ran) ==
    [status |-> [NewStatus(name) EXCEPT !.Error = kind], err |-> kind, ran |-> ran]

\* VerifyDependency after the command exited zero, returning the recorded
\* error to the caller
VerifiedStatusRaising(dep, current, update, compat) ==
    [status |->
        [Name |-> dep.Name, Installed |-> TRUE, CurrentVersion |-> current,
         RequiredUpdate |->
            IF dep.Version.Required # << >> /\ update.err = NoError
            THEN update.update ELSE NoUpdate,
         Compatible |->
            IF dep.Version.Constraint # << >>
            THEN (compat.err = NoError /\ compat.compatible)
            ELSE TRUE,
         Error |->
            IF dep.Version.Constraint # << >> /\ compat.err # NoError THEN compat.err
            ELSE IF dep.Version.Required # << >> THEN update.err
            ELSE NoError],
     err |->
            IF dep.Version.Constraint # << >> /\ compat.err # NoError THEN compat.err
            ELSE IF dep.Version.Required # << >> THEN update.err
            ELSE NoError,
     ran |-> TRUE]

\* VerifyDependency after the command exited zero, with a dependency that
\* has no constraint left as not compatible
VerifiedStatusUnconstrained(dep, current, update, compat) ==
    [status |->
        [Name |-> dep.Name, Installed |-> TRUE, CurrentVersion |-> current,
         RequiredUpdate |->
            IF dep.Version.Required # << >> /\ update.err = NoError
            THEN update.update ELSE NoUpdate,
         Compatible |-> dep.Version.Constraint # << >> /\ compat.err = NoError
                        /\ compat.compatible,
         Error |->
            IF dep.Version.Constraint # << >> /\ compat.err # NoError THEN compat.err
            ELSE IF dep.Version.Required # << >> THEN update.err
            ELSE NoError],
     err |-> NoError, ran |-> TRUE]

\* VerifyDependency after the command exited zero: the status from the
\* version found, with the results of CheckVersionUpdate and IsVersionCompatible
VerifiedStatus(dep, current, update, compat) ==
    [status |->
        [Name |-> dep.Name, Installed |-> TRUE, CurrentVersion |-> current,
         RequiredUpdate |->
            IF dep.Version.Required # << >> /\ update.err = NoError
            THEN update.update ELSE NoUpdate,
         Compatible |->
            IF dep.Version.Constraint # << >>
            THEN (compat.err = NoError /\ compat.compatible)
            ELSE TRUE,
         Error |->
            IF dep.Version.Constraint # << >> /\ compat.err # NoError THEN compat.err
            ELSE IF dep.Version.Required # << >> THEN update.err
            ELSE NoError],
     err |-> NoError, ran |-> TRUE]

VerifyCurrent(dep, current) ==
    VerifiedStatus(dep, current, CheckVersionUpdate(current, dep.Version.Required),
                   IsVersionCompatible(current, dep.Version.Constraint))

VerifyVersion(dep, outputStr, version) ==
    VerifyCurrent(dep, IF version # << >> THEN version ELSE outputStr)

VerifyOutput(dep, outputStr) == VerifyVersion(dep, outputStr, extractVersion(outputStr))

\* VerifyDependency against one run of the verify command:
\*   run.timeout  the 30 s deadline passed    run.exit   the exit code
\*   run.output   the combined output
VerifyWith(dep, pcfg, run) ==
    IF ~pcfg.ok THEN VerifyFailure(dep.Name, "PlatformUnsupported", FALSE)
    ELSE IF Len(pcfg.config.Verify) = 0 THEN VerifyFailure(dep.Name, "NoVerifyCommand", FALSE)
    ELSE IF run.timeout THEN VerifyFailure(dep.Name, "VerifyTimeout", TRUE)
    ELSE IF run.exit # 0 THEN VerifyFailure(dep.Name, "VerifyFailed", TRUE)
    ELSE VerifyOutput(dep, TrimSpace(run.output))

VerifyDependency(platform, dep, run) == VerifyWith(dep, GetPlatformConfig(platform, dep), run)

CheckDependency(platform, dep, run) == VerifyDependency(platform, dep, run)

\* one entry of the history of subprocesses, downloads and environment applications
Event(op, name, ok, cmd, status) ==
    [op |-> op, name |-> name, ok |-> ok, cmd |-> cmd, status |-> status]

VerifyEvent(name, cfg, v) ==
    Event("verify", name, v.err = NoError, IF v.ran THEN cfg.Verify ELSE << >>, v.status)

TempDir == <<"tmp", "/", "depman-download">>

\* what installDependency returns: [err, panic, events]
InstallOutcome(err, panic, events) == [err |-> err, panic |-> panic, events |-> events]

\* the install command with {download_path} replaced in the last argument only
InstallCommandLastArgument(cfg, downloadPath) ==
    [i \in 1..Len(cfg.Install) |->
        IF i = Len(cfg.Install)
        THEN ReplaceAll(cfg.Install[i], "{download_path}", downloadPath)
        ELSE cfg.Install[i]]

\* the install command: the template with {download_path} replaced
InstallCommand(cfg, downloadPath) ==
    [i \in 1..Len(cfg.Install) |-> ReplaceAll(cfg.Install[i], "{download_path}", downloadPath)]

\* RunInstall with the exit code of the install command ignored
RunInstallIgnoringExit(name, installCmd, exit, events) ==
    IF Len(installCmd) = 0 THEN InstallOutcome(NoError, TRUE, events)
    ELSE InstallOutcome(NoError, FALSE,
                        Append(events, Event("install", name, exit = 0, installCmd,
                                             NewStatus(name))))

\* installDependency from the exec of the install command on; installCmd[0]
\* of an empty command is a run-time panic
RunInstall(name, installCmd, exit, events) ==
    IF Len(installCmd) = 0 THEN InstallOutcome(NoError, TRUE, events)
    ELSE InstallOutcome(IF exit # 0 THEN "InstallFailed" ELSE NoError, FALSE,
                        Append(events, Event("install", name, exit = 0, installCmd,
                                             NewStatus(name))))

\* installDependency with a source URL: dl is what Download returned
InstallDownloaded(name, cfg, dl, exit) ==
    IF dl.err # NoError
    THEN InstallOutcome("DownloadError", FALSE,
                        <<Event("download", name, FALSE, << >>, NewStatus(name))>>)
    ELSE RunInstall(name, InstallCommand(cfg, dl.result.FilePath), exit,
                    <<Event("download", name, TRUE, << >>, NewStatus(name))>>)

InstallWith(name, cfg, net, exit) ==
    IF cfg.URL # << >>
    THEN InstallDownloaded(name, cfg,
                           Download([URL |-> cfg.URL, Checksum |-> cfg.Checksum,
                                     DestDir |-> TempDir, Filename |-> ""], net),
                           exit)
    ELSE RunInstall(name, InstallCommand(cfg, << >>), exit, << >>)

InstallResolved(name, pcfg, net, exit) ==
    IF ~pcfg.ok THEN InstallOutcome("PlatformUnsupported", FALSE, << >>)
    ELSE IF net.tempFails
    THEN InstallOutcome("TempDirFailed", FALSE,
                        <<Event("mkdtemp", name, FALSE, << >>, NewStatus(name))>>)
    ELSE InstallWith(name, pcfg.config, net, exit)

\* installDependency against one behaviour of the outside world (net: the
\* temporary directory and the download, exit: the install command's exit code)
installDependency(platform, dep, net, exit) ==
    InstallResolved(dep.Name, GetPlatformConfig(platform, dep), net, exit)

\* setupDependencyEnvironment: the paths are expanded and added first, then the
\* variables, in the map order `order` (a permutation of the dependency's
\* variables); an expansion ranges over the accumulator's n variables in the
\* order xorder[n].
RECURSIVE AddPaths(_, _, _, _, _)
AddPaths(em, env, xorder, paths, i) ==
    IF i > Len(paths) THEN em
    ELSE AddPaths(AddPath(em, ExpandVariables(em, env, xorder[Len(em.Variables)], paths[i])),
                  env, xorder, paths, i + 1)

RECURSIVE AddVariables(_, _, _, _, _, _)
AddVariables(em, env, xorder, vars, order, i) ==
    IF i > Len(order) THEN em
    ELSE AddVariables(
            AddVariable(em, vars[order[i]].name,
                        ExpandVariables(em, env, xorder[Len(em.Variables)],
                                        vars[order[i]].value)),
            env, xorder, vars, order, i + 1)

setupDependencyEnvironment(em, env, dep, order, xorder) ==
    AddVariables(AddPaths(em, env, xorder, dep.Environment.Path, 1),
                 env, xorder, dep.Environment.Variables, order, 1)

(***************************************************************************)
(* Locating and loading the manifest (config.go).  A path is a sequence of *)
(* tokens whose last one is the extension, if any; fs is the set of paths  *)
(* that exist, dirs the directories among them.                            *)
(***************************************************************************)
\* os.Stat(path) returns no error
Stat(fs, path) == path \in fs

HasSuffix(path, ext) == path # << >> /\ path[Len(path)] = ext

\* filepath.Join(dir, rel): an empty element is ignored
JoinRel(dir, rel) == IF dir = << >> THEN rel ELSE dir \o <<"/">> \o rel

ManifestName == <<"app-dependencies", ".yml">>

\* the standard locations, in the order they are probed
SearchPaths(goos, env) ==
    <<ManifestName,
      <<"config", "/">> \o ManifestName,
      <<"..", "/">> \o ManifestName,
      <<"..", "/", "config", "/">> \o ManifestName,
      JoinRel(Getenv(env, "HOME"), <<".config", "/", "depman", "/">> \o ManifestName)>>
    \o (IF goos = "windows" /\ Getenv(env, "APPDATA") # << >>
        THEN <<JoinRel(Getenv(env, "APPDATA"), <<"depman", "/">> \o ManifestName)>>
        ELSE << >>)

Located(path, err) == [path |-> path, err |-> err]

\* the loop over searchPaths from position i on
RECURSIVE FirstExisting(_, _, _)
FirstExisting(fs, paths, i) ==
    IF i > Len(paths) THEN Located(<< >>, "NotFound")
    ELSE IF Stat(fs, paths[i]) THEN Located(paths[i], NoError)
    ELSE FirstExisting(fs, paths, i + 1)

FindDependencyFile(customPath, fs, goos, env) ==
    IF customPath # << >> /\ Stat(fs, customPath) THEN Located(customPath, NoError)
    ELSE IF /\ customPath # << >>
            /\ ~HasSuffix(customPath, ".yml") /\ ~HasSuffix(customPath, ".yaml")
            /\ Stat(fs, customPath \o <<".yml">>)
         THEN Located(customPath \o <<".yml">>, NoError)
    ELSE FirstExisting(fs, SearchPaths(goos, env), 1)

\* LoadDependencyConfig from os.ReadFile on: a directory or a missing path
\* cannot be read, malformed content does not unmarshal
ReadConfig(found, fs, dirs, malformed) ==
    IF found.err # NoError THEN found
    ELSE IF found.path \notin fs \/ found.path \in dirs THEN Located(found.path, "ReadError")
    ELSE IF malformed THEN Located(found.path, "ParseError")
    ELSE found

LoadDependencyConfig(path, fs, dirs, goos, env, malformed) ==
    ReadConfig(IF path = << >> THEN FindDependencyFile(<< >>, fs, goos, env)
               ELSE Located(path, NoError),
               fs, dirs, malformed)

(***************************************************************************)
(* Bounds and the inputs the model draws from                              *)
(***************************************************************************)
MaxDeps == 2        \* dependencies in a manifest
MaxCalls == 2       \* CheckAll / EnsureAll invocations on one engine

Chars(a, b, c) == <<a, ".", b, ".", c>>

Version120 == Chars("1", "2", "0")

Version130 == Chars("1", "3", "0")

VerifyCmd == <<(<<"tool">>), (<<"--version">>)>>

\* the active platform of the engine (NewManager: runtime.GOOS or WithPlatform)
Platform == "linux"

PlainConfig ==
    [URL |-> << >>, Checksum |-> << >>,
     Install |-> <<(<<"apt-get">>), (<<"install">>), (<<"tool">>)>>,
     Verify |-> VerifyCmd]

ToolConfig ==
    [URL |-> <<"https://example.com", "/", "tool.pkg">>, Checksum |-> << >>,
     Install |-> <<(<<"installer">>), (<<"-pkg">>), (<<"{download_path}">>)>>,
     Verify |-> VerifyCmd]

NoEnvironment == [Path |-> << >>, Variables |-> << >>]

ToolEnvironment ==
    [Path |-> <<(<<"{TOOL_HOME}", "/", "bin", "/">>)>>,
     Variables |-> <<[name |-> "TOOL_HOME", value |-> <<"/opt/tool">>]>>]

\* the dependency entries manifests are built from (Name is set by position)
Dep(required, constraint, platforms, environment) ==
    [Name |-> "", Version |-> [Required |-> required, Constraint |-> constraint],
     Platforms |-> platforms, Environment |-> environment]

\* download, install with {download_path}, constraint, environment
ToolDep ==
    Dep(Version120, <<"~">> \o Version120, [p \in {"linux", "darwin"} |-> ToolConfig],
        ToolEnvironment)

\* the base of the entries below: no download, no constraint, no environment
PlainDep == Dep(Version130, << >>, [p \in {"linux"} |-> PlainConfig], NoEnvironment)

DepPool ==
    { ToolDep,
      \* no verify command
      [PlainDep EXCEPT !.Platforms = [p \in {"linux"} |-> [PlainConfig EXCEPT !.Verify = << >>]]],
      \* an empty install template
      [PlainDep EXCEPT !.Platforms = [p \in {"linux"} |-> [PlainConfig EXCEPT !.Install = << >>]]],
      \* no bundle for the active platform
      [PlainDep EXCEPT !.Platforms = [p \in {"darwin"} |-> PlainConfig]],
      \* no required version
      [PlainDep EXCEPT !.Version.Required = << >>],
      \* a constraint that does not parse
      [PlainDep EXCEPT !.Version.Constraint =
            <<"n", "o", "t", " ", "a", " ", "r", "a", "n", "g", "e", "!">>] }

DepNames == [i \in 1..9 |-> <<"d1", "d2", "d3", "d4", "d5", "d6", "d7", "d8", "d9">>[i]]

\* manifests: up to MaxDeps pool entries, named d1, d2, ... by position (the
\* name is the unique key of a dependency)
Manifests ==
    UNION {{[i \in 1..n |-> [ds[i] EXCEPT !.Name = DepNames[i]]] : ds \in [1..n -> DepPool]}
           : n \in 0..MaxDeps}

\* what a verify command can do: pass the deadline, exit non-zero, or print
VerifyOutputs == {Version120 \o <<"\n">>, <<"t", "o", "o", "l", " ", "v">> \o Version130}

VerifyRuns ==
    {[timeout |-> TRUE, exit |-> 0, output |-> << >>],
     [timeout |-> FALSE, exit |-> 1, output |-> <<"e", "r", "r">>]}
    \cup {[timeout |-> FALSE, exit |-> 0, output |-> o] : o \in VerifyOutputs}

\* what file system and network can do during an install of the engine
Body == <<26, 3>>

EngineNet(tf, st) ==
    [tempFails |-> tf, mkdirFails |-> FALSE, createFails |-> FALSE, getFails |-> FALSE,
     status |-> st, body |-> Body, written |-> Len(Body) + 1, removeFails |-> FALSE]

EngineNets == {EngineNet(TRUE, StatusOK), EngineNet(FALSE, StatusOK), EngineNet(FALSE, OtherStatus)}

InstallExits == {0, 1}

\* the environment the process starts with
AmbientEnv ==
    <<[name |-> "PATH", value |-> <<"/usr/bin">>],
      [name |-> "HOME", value |-> <<"/home/user">>]>>

(***************************************************************************)
(* The engine as a state machine                                           *)
(***************************************************************************)
VARIABLES
    manifest,    \* Manager.Config.Dependencies
    em,          \* Manager.envManager: the accumulator
    procEnv,     \* the environment of the process
    pc,          \* "idle", "checking", "installing", "returned", "panicked"
    op,          \* the entry point running or last run: "check" or "ensure"
    idx,         \* CheckAllDependencies: index of the next dependency
    statuses,    \* the map under construction
    remaining,   \* EnsureDependencies: keys the range loop has not visited yet
    result,      \* what the last invocation returned: [nil, statuses, err]
    calls,       \* invocations started so far
    log,         \* history: subprocesses, downloads and applications of this invocation
    checked,     \* history: the map CheckAllDependencies produced in this invocation
    arg,         \* input of the pure operation under test
    ret,         \* its output
    mu,          \* registry Manager.mu: the goroutine that holds it, "" when unlocked
    dependencies,\* registry Manager.dependencies: name -> Dependency
    goroutines,  \* the goroutines calling the registry: position, call, locals
    history      \* history: the completed registry calls in the order of their Unlock

\* the state of the registry of src/unnamed/part_002
registryVars == <<mu, dependencies, goroutines, history>>

vars == <<manifest, em, procEnv, pc, op, idx, statuses, remaining, result, calls,
          log, checked, arg, ret, mu, dependencies, goroutines, history>>

EmptyMap == [n \in {} |-> NewStatus(n)]

Put(m, k, v) == [x \in DOMAIN m \cup {k} |-> IF x = k THEN v ELSE m[x]]

NoReturn == [nil |-> TRUE, statuses |-> EmptyMap, err |-> NoError]

Returned(isNil, m, err) == [nil |-> isNil, statuses |-> m, err |-> err]

Names == {manifest[i].Name : i \in 1..Len(manifest)}

\* the lookup loop of EnsureDependencies: the first entry with that name
FindDependency(name) ==
    manifest[CHOOSE i \in 1..Len(manifest) :
                /\ manifest[i].Name = name
                /\ \A j \in 1..(i - 1) : manifest[j].Name # name]

\* UpToDate with the comparison of the update type inverted
UpToDateInverted(status) ==
    status.Installed /\ status.Compatible /\ status.RequiredUpdate # NoUpdate

\* the skip test of the install loop
UpToDate(status) ==
    status.Installed /\ status.Compatible /\ status.RequiredUpdate = NoUpdate

\* a goroutine that is in no registry call
Idle ==
    [pc |-> "idle", op |-> "", dep |-> [Name |-> "", Version |-> ""], err |-> NoError,
     deps |-> << >>, since |-> 0]

Goroutines == {"g1", "g2"}

\* the registry's NewManager: an empty map, the mutex unlocked
NewManager ==
    /\ mu = ""
    /\ dependencies = [n \in {} |-> Idle.dep]
    /\ goroutines = [g \in Goroutines |-> Idle]
    /\ history = << >>

EngineInit ==
    /\ NewManager
    /\ em = NewEnvManager
    /\ procEnv = AmbientEnv
    /\ pc = "idle"
    /\ op = "check"
    /\ idx = 1
    /\ statuses = EmptyMap
    /\ remaining = {}
    /\ result = NoReturn
    /\ calls = 0
    /\ log = << >>
    /\ checked = EmptyMap

Init ==
    /\ manifest \in Manifests
    /\ EngineInit
    /\ arg = << >>
    /\ ret = << >>

\* ValidationFailed returning the (empty) map under construction with the error
ValidationFailedWithMap(errors) == Returned(FALSE, EmptyMap, "ValidationError")

\* what both entry points return when validation found errors: no map
ValidationFailed(errors) == Returned(TRUE, EmptyMap, "ValidationError")

\* entry of CheckAllDependencies (o = "check") or EnsureDependencies
\* (o = "ensure"): validation; EnsureDependencies validates twice, through
\* validateConfiguration and again inside CheckAllDependencies
Begin(o) ==
    /\ pc \in {"idle", "returned"}
    /\ calls < MaxCalls
    /\ calls' = calls + 1
    /\ op' = o
    /\ log' = << >>
    /\ checked' = EmptyMap
    /\ statuses' = EmptyMap
    /\ remaining' = {}
    /\ idx' = 1
    /\ IF Len(validateDependencies(Platform, manifest)) > 0
       THEN /\ pc' = "returned"
            /\ result' = ValidationFailed(validateDependencies(Platform, manifest))
       ELSE /\ pc' = "checking"
            /\ result' = NoReturn
    /\ UNCHANGED <<registryVars, manifest, em, procEnv, arg, ret>>

CheckAllDependencies == Begin("check")

EnsureDependencies == Begin("ensure")

\* the orders the maps involved can be ranged over: one permutation per size
MapOrders(n) == {f \in [0..n -> UNION {Orders(k) : k \in 0..n}] :
                    \A k \in 0..n : f[k] \in Orders(k)}

\* a loop iteration of CheckAllDependencies that also records the
\* dependency's environment in the accumulator
CheckNextSettingUp ==
    /\ pc = "checking"
    /\ \E run \in VerifyRuns,
          order \in Orders(Len(manifest[idx].Environment.Variables)),
          xorder \in MapOrders(Len(em.Variables) + Len(manifest[idx].Environment.Variables)) :
       \E r \in {CheckDependency(Platform, manifest[idx], run)} :
       \E m \in {Put(statuses, manifest[idx].Name, r.status)} :
        /\ statuses' = m
        /\ em' = setupDependencyEnvironment(em, procEnv, manifest[idx], order, xorder)
        /\ log' = Append(log, VerifyEvent(manifest[idx].Name,
                                          GetPlatformConfig(Platform, manifest[idx]).config, r))
        /\ idx' = idx + 1
        /\ IF idx < Len(manifest)
           THEN UNCHANGED <<pc, result, remaining, checked>>
           ELSE /\ checked' = m
                /\ IF op = "check"
                   THEN /\ pc' = "returned"
                        /\ result' = Returned(FALSE, m, NoError)
                        /\ UNCHANGED remaining
                   ELSE /\ pc' = "installing"
                        /\ remaining' = DOMAIN m
                        /\ UNCHANGED result
    /\ UNCHANGED <<registryVars, manifest, procEnv, op, calls, arg, ret>>

\* one iteration of the loop of CheckAllDependencies; after the last one
\* CheckAllDependencies returns (to its caller, or into EnsureDependencies)
CheckNext ==
    /\ pc = "checking"
    /\ \E run \in VerifyRuns :
       \E r \in {CheckDependency(Platform, manifest[idx], run)} :
       \E m \in {Put(statuses, manifest[idx].Name, r.status)} :
        /\ statuses' = m
        /\ log' = Append(log, VerifyEvent(manifest[idx].Name,
                                          GetPlatformConfig(Platform, manifest[idx]).config, r))
        /\ idx' = idx + 1
        /\ IF idx < Len(manifest)
           THEN UNCHANGED <<pc, result, remaining, checked>>
           ELSE /\ checked' = m
                /\ IF op = "check"
                   THEN /\ pc' = "returned"
                        /\ result' = Returned(FALSE, m, NoError)
                        /\ UNCHANGED remaining
                   ELSE /\ pc' = "installing"
                        /\ remaining' = DOMAIN m
                        /\ UNCHANGED result
    /\ UNCHANGED <<registryVars, manifest, em, procEnv, op, calls, arg, ret>>

\* InstallVerify leaving the dependency in the loop: it is installed again
\* for as long as its fresh status is not up to date
InstallVerifyRetrying(name, dep, inst, run) ==
    \E order \in Orders(Len(dep.Environment.Variables)),
       xorder \in MapOrders(Len(em.Variables) + Len(dep.Environment.Variables)) :
    \E v \in {CheckDependency(Platform, dep, run)} :
        /\ em' = setupDependencyEnvironment(em, procEnv, dep, order, xorder)
        /\ log' = (log \o inst.events)
                  \o <<VerifyEvent(name, GetPlatformConfig(Platform, dep).config, v)>>
        /\ IF v.err # NoError
           THEN /\ result' = Returned(FALSE, statuses, v.err)
                /\ pc' = "returned"
                /\ UNCHANGED <<statuses, remaining>>
           ELSE /\ statuses' = Put(statuses, name, v.status)
                /\ UNCHANGED <<pc, result, remaining>>

\* the rest of a loop iteration after installDependency returned nil:
\* setupDependencyEnvironment, CheckDependency, the status update
InstallVerify(name, dep, inst, run) ==
    \E order \in Orders(Len(dep.Environment.Variables)),
       xorder \in MapOrders(Len(em.Variables) + Len(dep.Environment.Variables)) :
    \E v \in {CheckDependency(Platform, dep, run)} :
        /\ em' = setupDependencyEnvironment(em, procEnv, dep, order, xorder)
        /\ log' = (log \o inst.events)
                  \o <<VerifyEvent(name, GetPlatformConfig(Platform, dep).config, v)>>
        /\ IF v.err # NoError
           THEN /\ result' = Returned(FALSE, statuses, v.err)
                /\ pc' = "returned"
                /\ UNCHANGED <<statuses, remaining>>
           ELSE /\ statuses' = Put(statuses, name, v.status)
                /\ remaining' = remaining \ {name}
                /\ UNCHANGED <<pc, result>>

\* one iteration of the install loop that does not `continue`: the range
\* over the map yields the keys in any order, and the keys whose status is up
\* to date are passed over without effect
InstallNext ==
    /\ pc = "installing"
    /\ \E name \in remaining, net \in EngineNets, exit \in InstallExits, run \in VerifyRuns :
       \E dep \in {FindDependency(name)} :
       \E inst \in {installDependency(Platform, dep, net, exit)} :
        /\ ~UpToDate(statuses[name])
        /\ IF inst.panic
           THEN /\ pc' = "panicked"
                /\ log' = log \o inst.events
                /\ UNCHANGED <<em, statuses, remaining, result>>
           ELSE IF inst.err # NoError
           THEN /\ statuses' = [statuses EXCEPT ![name].Error = inst.err,
                                                ![name].Installed = FALSE]
                /\ result' = Returned(FALSE, statuses', inst.err)
                /\ pc' = "returned"
                /\ log' = log \o inst.events
                /\ UNCHANGED <<em, remaining>>
           ELSE InstallVerify(name, dep, inst, run)
    /\ UNCHANGED <<registryVars, manifest, procEnv, op, idx, calls, checked, arg, ret>>

\* after the loop: ApplyToCurrentProcess (a failure is logged only), return
InstallDone ==
    /\ pc = "installing"
    /\ \A name \in remaining : UpToDate(statuses[name])
    /\ \E order \in Orders(Len(em.Variables)) :
       \E a \in {ApplyToCurrentProcess(em, procEnv, order)} :
        /\ procEnv' = a.env
        /\ log' = Append(log, Event("apply", "", a.err = NoError, << >>, NewStatus("")))
    /\ result' = Returned(FALSE, statuses, NoError)
    /\ pc' = "returned"
    /\ remaining' = {}
    /\ UNCHANGED <<registryVars, manifest, em, op, idx, statuses, calls, checked, arg, ret>>

Next ==
    \/ CheckAllDependencies
    \/ EnsureDependencies
    \/ CheckNext
    \/ InstallNext
    \/ InstallDone

Spec == Init /\ [][Next]_vars

(***************************************************************************)
(* CheckVersionUpdate as a function: the specification draws a pair of     *)
(* version strings and applies it.                                         *)
(***************************************************************************)
MaxComponent == 2   \* largest major, minor or patch number drawn

Numeral(n) == <<"0", "1", "2", "3", "4", "5", "6", "7", "8", "9">>[n + 1]

VersionTexts ==
    {Chars(Numeral(a), Numeral(b), Numeral(c)) : a, b, c \in 0..MaxComponent}
    \cup {<<"v", "1", ".", "2", ".", "0">>, <<"1", ".", "2">>, <<"2">>,
          <<"1", ".", "2", ".", "0", "-", "r", "c">>, <<"a", "b", "c">>, << >>}

VersionInit ==
    /\ manifest = << >>
    /\ EngineInit
    /\ arg \in [current : VersionTexts, required : VersionTexts]
    /\ ret = << >>

\* one call CheckVersionUpdate(arg.current, arg.required)
ClassifyUpdate ==
    /\ ret = << >>
    /\ ret' = <<CheckVersionUpdate(arg.current, arg.required)>>
    /\ UNCHANGED <<registryVars, manifest, em, procEnv, pc, op, idx, statuses, remaining, result, calls,
                   log, checked, arg>>

SpecVersion == VersionInit /\ [][ClassifyUpdate]_vars

(***************************************************************************)
(* Download as a function of its options and of what the file system and   *)
(* the network do.                                                         *)
(***************************************************************************)
MaxBody == 2        \* bytes in a response body

Bytes == {0, 26, 255}

Bodies == UNION {[1..n -> Bytes] : n \in 0..MaxBody}

UpperOf(c) ==
    CASE c = "a" -> "A" [] c = "b" -> "B" [] c = "c" -> "C" [] c = "d" -> "D"
      [] c = "e" -> "E" [] c = "f" -> "F" [] c = "s" -> "S" [] c = "h" -> "H"
      [] OTHER -> c

ToUpper(s) == [i \in 1..Len(s) |-> UpperOf(s[i])]

Sha256Tag == <<"s", "h", "a", "2", "5", "6">>

\* the checksums requested for a body: none, the right digest in lower and in
\* upper case, the digest of another stream, and malformed ones
ChecksumsFor(body) ==
    {<< >>,
     Sha256Tag \o <<":">> \o EncodeToString(Sha256Sum(body)),
     ToUpper(Sha256Tag) \o <<":">> \o ToUpper(EncodeToString(Sha256Sum(body))),
     Sha256Tag \o <<":">> \o EncodeToString(Sha256Sum(body \o <<171>>)),
     <<"m", "d", "5", ":", "a", "b">>,
     Sha256Tag,
     Sha256Tag \o <<":", "a", "b", ":", "c", "d">>}

DownloadNets ==
    {[mkdirFails |-> mk, createFails |-> cr, getFails |-> gt, status |-> st, body |-> b,
      written |-> w, removeFails |-> rm]
        : mk \in BOOLEAN, cr \in BOOLEAN, gt \in BOOLEAN, rm \in BOOLEAN,
          st \in {StatusOK, OtherStatus}, b \in Bodies, w \in {0, MaxBody + 2}}

DownloadInputs ==
    UNION {{[opts |-> [URL |-> <<"https://example.com", "/", "tool.pkg">>, Checksum |-> c,
                       DestDir |-> TempDir, Filename |-> f],
             net |-> n] : c \in ChecksumsFor(n.body), f \in {"", "tool.bin"}}
           : n \in DownloadNets}

DownloadInit ==
    /\ manifest = << >>
    /\ EngineInit
    /\ arg \in DownloadInputs
    /\ ret = << >>

\* one call Download(arg.opts) in the world arg.net
CallDownload ==
    /\ ret = << >>
    /\ ret' = <<Download(arg.opts, arg.net)>>
    /\ UNCHANGED <<registryVars, manifest, em, procEnv, pc, op, idx, statuses, remaining, result, calls,
                   log, checked, arg>>

SpecDownload == DownloadInit /\ [][CallDownload]_vars

(***************************************************************************)
(* validateDependencies as a function of the manifest.                     *)
(***************************************************************************)
\* 64 hexadecimal digits
Hex64 == [i \in 1..64 |-> HexDigits[((i * 7) % 16) + 1]]

\* installer checksums a manifest can carry
ManifestChecksums ==
    {<< >>,
     Sha256Tag \o <<":">> \o Hex64,
     Sha256Tag \o <<":", "a", "b">>,
     <<"m", "d", "5", ":", "a", "b">>}

WithChecksum(dep, c) ==
    [dep EXCEPT !.Platforms = [p \in DOMAIN dep.Platforms |->
                                  [dep.Platforms[p] EXCEPT !.URL = ToolConfig.URL,
                                                           !.Checksum = c]]]

\* entries that differ in what validation looks at, and entries that differ in
\* the installer checksum only
ValidationPool ==
    {Dep(r, c, [p \in ps |-> PlainConfig], NoEnvironment)
        : r \in {<< >>, Version130},
          c \in {<< >>, <<"~">> \o Version120,
                 <<"n", "o", "t", " ", "a", " ", "r", "a", "n", "g", "e", "!">>},
          ps \in {{"linux"}, {"darwin"}}}
    \cup {WithChecksum(PlainDep, c) : c \in ManifestChecksums}

ValidationManifests ==
    UNION {{[i \in 1..n |-> [ds[i] EXCEPT !.Name = DepNames[i]]]
                : ds \in [1..n -> ValidationPool]} : n \in 0..MaxDeps}

ValidateInit ==
    /\ manifest \in ValidationManifests
    /\ EngineInit
    /\ arg = << >>
    /\ ret = << >>

\* one call of validateDependencies on the manifest
Validate ==
    /\ ret = << >>
    /\ ret' = <<validateDependencies(Platform, manifest)>>
    /\ UNCHANGED <<registryVars, manifest, em, procEnv, pc, op, idx, statuses, remaining, result, calls,
                   log, checked, arg>>

SpecValidate == ValidateInit /\ [][Validate]_vars

(***************************************************************************)
(* FindDependencyFile and LoadDependencyConfig as functions of the path    *)
(* given and of the file system.                                           *)
(***************************************************************************)
CustomPaths ==
    {<< >>, <<"custom">>, <<"custom", ".yml">>, <<"custom", ".yaml">>, <<"config">>,
     <<"not-exists", ".yml">>}

HostEnvs ==
    {[goos |-> "linux", env |-> AmbientEnv],
     [goos |-> "linux", env |-> <<AmbientEnv[1]>>],
     [goos |-> "windows", env |-> AmbientEnv],
     [goos |-> "windows",
      env |-> Append(AmbientEnv, [name |-> "APPDATA", value |-> <<"C:", "/", "AppData">>])]}

\* the files and the directories that may exist
FileUniverse(h) ==
    {<<"custom", ".yml">>} \cup {SearchPaths(h.goos, h.env)[i] : i \in {1, 2, 3, 5, 6}
                                                                    \cap 1..Len(SearchPaths(h.goos, h.env))}

DirUniverse == {<<"custom">>, <<"config">>}

\* a config/app-dependencies.yml can only exist inside a directory config
DirSets(fl) ==
    {d \in SUBSET DirUniverse : (<<"config", "/">> \o ManifestName) \in fl => <<"config">> \in d}

FindWorlds(h) ==
    UNION {{[customPath |-> c, files |-> fl, dirs |-> ds, goos |-> h.goos, env |-> h.env,
             malformed |-> mf]
                : c \in CustomPaths, ds \in DirSets(fl), mf \in BOOLEAN}
           : fl \in SUBSET FileUniverse(h)}

FindInputs == UNION {FindWorlds(h) : h \in HostEnvs}

FindInit ==
    /\ manifest = << >>
    /\ EngineInit
    /\ arg \in FindInputs
    /\ ret = << >>

\* one call FindDependencyFile(arg.customPath)
CallFindDependencyFile ==
    /\ ret = << >>
    /\ ret' = <<[op |-> "find",
                 out |-> FindDependencyFile(arg.customPath, arg.files \cup arg.dirs,
                                            arg.goos, arg.env)]>>
    /\ UNCHANGED <<registryVars, manifest, em, procEnv, pc, op, idx, statuses, remaining, result, calls,
                   log, checked, arg>>

\* one call LoadDependencyConfig(arg.customPath)
CallLoadDependencyConfig ==
    /\ ret = << >>
    /\ ret' = <<[op |-> "load",
                 out |-> LoadDependencyConfig(arg.customPath, arg.files \cup arg.dirs,
                                              arg.dirs, arg.goos, arg.env, arg.malformed)]>>
    /\ UNCHANGED <<registryVars, manifest, em, procEnv, pc, op, idx, statuses, remaining, result, calls,
                   log, checked, arg>>

FindNext ==
    \/ CallFindDependencyFile
    \/ CallLoadDependencyConfig

SpecFind == FindInit /\ [][FindNext]_vars

(***************************************************************************)
(* The environment accumulator on its own: calls of AddPath and            *)
(* AddVariable, each of which may be followed by GetUpdatedEnvironment.    *)
(* arg holds the host and the last modifying call, ret the last merged     *)
(* environment.                                                            *)
(***************************************************************************)
MaxEnvCalls == 3

PathInputs ==
    {<<"/opt/tool/bin">>, <<"/opt/tool/bin", "/">>, <<"/usr/local/bin">>}

VariableInputs ==
    {[name |-> "TOOL_HOME", value |-> <<"/opt/tool">>],
     [name |-> "TOOL_HOME", value |-> <<"/opt/other">>],
     [name |-> "PATH", value |-> <<"/opt/tool/bin">>]}

\* the process environments an accumulator may meet
Ambients ==
    {[goos |-> "linux", env |-> AmbientEnv],
     [goos |-> "linux",
      env |-> <<[name |-> "PATH", value |-> <<"/opt/tool/bin", ":", "/usr/bin">>]>>],
     [goos |-> "linux", env |-> <<AmbientEnv[2]>>],
     [goos |-> "windows",
      env |-> <<AmbientEnv[2], [name |-> "Path", value |-> <<"/usr/bin">>]>>]}

EnvCall(goos, call, input, before) ==
    [goos |-> goos, call |-> call, input |-> input, before |-> before]

EnvInit ==
    /\ manifest = << >>
    /\ NewManager
    /\ em = NewEnvManager
    /\ pc = "idle"
    /\ op = "check"
    /\ idx = 1
    /\ statuses = EmptyMap
    /\ remaining = {}
    /\ result = NoReturn
    /\ calls = 0
    /\ log = << >>
    /\ checked = EmptyMap
    /\ \E a \in Ambients :
        /\ procEnv = a.env
        /\ arg = EnvCall(a.goos, "NewManager", << >>, NewEnvManager)
    /\ ret = << >>

\* em.AddPath(p)
CallAddPath ==
    /\ calls < MaxEnvCalls
    /\ calls' = calls + 1
    /\ \E p \in PathInputs :
        /\ em' = AddPath(em, p)
        /\ arg' = EnvCall(arg.goos, "AddPath", p, em)
    /\ ret' = << >>
    /\ UNCHANGED <<registryVars, manifest, procEnv, pc, op, idx, statuses, remaining, result, log, checked>>

\* em.AddVariable(key, value)
CallAddVariable ==
    /\ calls < MaxEnvCalls
    /\ calls' = calls + 1
    /\ \E v \in VariableInputs :
        /\ em' = AddVariable(em, v.name, v.value)
        /\ arg' = EnvCall(arg.goos, "AddVariable", v, em)
    /\ ret' = << >>
    /\ UNCHANGED <<registryVars, manifest, procEnv, pc, op, idx, statuses, remaining, result, log, checked>>

\* em.GetUpdatedEnvironment()
CallGetUpdatedEnvironment ==
    /\ ret = << >>
    /\ \E order \in Orders(Len(em.Variables)) :
        ret' = <<GetUpdatedEnvironment(em, procEnv, order, arg.goos)>>
    /\ UNCHANGED <<registryVars, manifest, em, procEnv, pc, op, idx, statuses, remaining, result, calls,
                   log, checked, arg>>

\* em.ApplyToCurrentProcess() on a host whose variable names are case
\* sensitive; arg keeps the environment the call met and the error returned
CallApplyToCurrentProcess ==
    /\ calls < MaxEnvCalls
    /\ calls' = calls + 1
    /\ arg.goos # "windows"
    /\ \E order \in Orders(Len(em.Variables)) :
       \E a \in {ApplyToCurrentProcess(em, procEnv, order)} :
        /\ procEnv' = a.env
        /\ arg' = EnvCall(arg.goos, "ApplyToCurrentProcess",
                          [env |-> procEnv, err |-> a.err], em)
    /\ ret' = << >>
    /\ UNCHANGED <<registryVars, manifest, em, pc, op, idx, statuses, remaining, result, log, checked>>

EnvNext ==
    \/ CallAddPath
    \/ CallAddVariable
    \/ CallGetUpdatedEnvironment
    \/ CallApplyToCurrentProcess

SpecEnv == EnvInit /\ [][EnvNext]_vars

(***************************************************************************)
(* VerifyDependency as a function of the dependency and of what its verify *)
(* command does.                                                           *)
(***************************************************************************)
VerifyDeps ==
    {Dep(r, c, ps, NoEnvironment)
        : r \in {<< >>, Version120, Version130},
          c \in {<< >>, <<"~">> \o Version120, <<">", "=">> \o Version130,
                 <<"n", "o", "t", " ", "a", " ", "r", "a", "n", "g", "e", "!">>},
          ps \in {[p \in {"linux"} |-> PlainConfig],
                  [p \in {"darwin"} |-> PlainConfig],
                  [p \in {"linux"} |-> [PlainConfig EXCEPT !.Verify = << >>]]}}

VerifyTexts ==
    VerifyOutputs
    \cup {Version130,
          <<" ", "v", "e", "r", "s", "i", "o", "n", " ">> \o Version120
                \o <<"-", "r", "c", "1", " ", "\n">>,
          <<"g", "a", "r", "b", "a", "g", "e">>,
          << >>}

VerifyInputs ==
    [dep : VerifyDeps,
     run : {[timeout |-> TRUE, exit |-> 0, output |-> << >>],
            [timeout |-> FALSE, exit |-> 1, output |-> <<"e", "r", "r">>]}
           \cup {[timeout |-> FALSE, exit |-> 0, output |-> o] : o \in VerifyTexts}]

VerifyInit ==
    /\ manifest = << >>
    /\ EngineInit
    /\ arg \in VerifyInputs
    /\ ret = << >>

\* one call VerifyDependency(arg.dep) whose verify command does arg.run
CallVerifyDependency ==
    /\ ret = << >>
    /\ ret' = <<VerifyDependency(Platform, arg.dep, arg.run)>>
    /\ UNCHANGED <<registryVars, manifest, em, procEnv, pc, op, idx, statuses, remaining, result, calls,
                   log, checked, arg>>

SpecVerify == VerifyInit /\ [][CallVerifyDependency]_vars

(***************************************************************************)
(* extractVersion as a function of the output text.                        *)
(***************************************************************************)
MaxText == 6        \* characters in a generated output text

TextChars == {"1", "2", ".", "v", "-"}

OutputTexts ==
    UNION {[1..n -> TextChars] : n \in 0..MaxText}
    \cup {<<"M", "y", "T", "o", "o", "l", " ", "v", "e", "r", "s", "i", "o", "n", " ",
            "1", ".", "2", ".", "3", "-", "r", "c", "1", " ",
            "b", "u", "i", "l", "t", " ", "2", "0", "2", "4">>,
          <<"g", "a", "r", "b", "a", "g", "e">>,
          <<"v", "e", "r", "s", "i", "o", "n", " ", " ", "v", "1", "0", ".", "2", ".", "3",
            "+", "b", "7">>,
          <<"1", ".", "2", " ", "t", "o", "o", "l", " ", "0", ".", "9", ".", "1", "2", ".", "4">>}

ExtractInit ==
    /\ manifest = << >>
    /\ EngineInit
    /\ arg \in OutputTexts
    /\ ret = << >>

\* one call extractVersion(arg)
CallExtractVersion ==
    /\ ret = << >>
    /\ ret' = <<extractVersion(arg)>>
    /\ UNCHANGED <<registryVars, manifest, em, procEnv, pc, op, idx, statuses, remaining, result, calls,
                   log, checked, arg>>

SpecExtract == ExtractInit /\ [][CallExtractVersion]_vars

(***************************************************************************)
(* GetPlatformConfig on a manager built by NewManager, as a function of    *)
(* the host, the options and the dependency.                               *)
(***************************************************************************)
HostSystems == {"linux", "darwin", "windows"}

PlatformOptions ==
    UNION {[1..n -> {"linux", "windows", "freebsd"}] : n \in 0..2}

PlatformDeps ==
    {Dep(Version130, << >>, ps, NoEnvironment)
        : ps \in {[p \in {"linux"} |-> PlainConfig],
                  [p \in {"darwin"} |-> ToolConfig],
                  [p \in {"linux", "darwin", "windows"} |->
                        IF p = "linux" THEN PlainConfig
                        ELSE IF p = "darwin" THEN ToolConfig
                        ELSE [ToolConfig EXCEPT !.Verify = << >>]],
                  [p \in {} |-> PlainConfig]}}

PlatformInit ==
    /\ manifest = << >>
    /\ EngineInit
    /\ arg \in [goos : HostSystems, opts : PlatformOptions, dep : PlatformDeps]
    /\ ret = << >>

\* NewManager(path, WithPlatform(arg.opts[1]), ...) on host arg.goos, then
\* GetPlatformConfig(arg.dep)
CallGetPlatformConfig ==
    /\ ret = << >>
    /\ ret' = <<GetPlatformConfig(NewManagerPlatform(arg.goos, arg.opts), arg.dep)>>
    /\ UNCHANGED <<registryVars, manifest, em, procEnv, pc, op, idx, statuses, remaining, result, calls,
                   log, checked, arg>>

SpecPlatform == PlatformInit /\ [][CallGetPlatformConfig]_vars

(***************************************************************************)
(* CheckVersionUpdate and IsVersionCompatible side by side: one of the two *)
(* is called on the texts drawn.                                           *)
(***************************************************************************)
ConstraintTexts ==
    {<<"~">> \o Version120, <<">", "=">> \o Version130, <<"^">> \o Version120,
     <<"n", "o", "t", " ", "a", " ", "r", "a", "n", "g", "e", "!">>, << >>}

VersionOpsInit ==
    /\ manifest = << >>
    /\ EngineInit
    /\ arg \in [current : VersionTexts, required : VersionTexts, constraint : ConstraintTexts]
    /\ ret = << >>

\* CheckVersionUpdate(arg.current, arg.required)
CallCheckVersionUpdate ==
    /\ ret = << >>
    /\ ret' = <<[op |-> "CheckVersionUpdate",
                 out |-> CheckVersionUpdate(arg.current, arg.required)]>>
    /\ UNCHANGED <<registryVars, manifest, em, procEnv, pc, op, idx, statuses, remaining, result, calls,
                   log, checked, arg>>

\* IsVersionCompatible(arg.current, arg.constraint)
CallIsVersionCompatible ==
    /\ ret = << >>
    /\ ret' = <<[op |-> "IsVersionCompatible",
                 out |-> IsVersionCompatible(arg.current, arg.constraint)]>>
    /\ UNCHANGED <<registryVars, manifest, em, procEnv, pc, op, idx, statuses, remaining, result, calls,
                   log, checked, arg>>

VersionOpsNext ==
    \/ CallCheckVersionUpdate
    \/ CallIsVersionCompatible

SpecVersionOps == VersionOpsInit /\ [][VersionOpsNext]_vars

(***************************************************************************)
(* ExpandVariables as a function of the text, of the accumulator's         *)
(* variables, of the process environment and of the order in which the map *)
(* of variables is ranged over.                                            *)
(***************************************************************************)
ExpandValues == {<<"/opt/a">>, <<"{B}", "/", "x">>, <<"{HOME}">>}

\* accumulators of up to two variables A and B
ExpandAccumulators ==
    {[Variables |-> << >>, Paths |-> << >>]}
    \cup {[Variables |-> <<[name |-> n, value |-> v]>>, Paths |-> << >>]
            : n \in {"A", "B"}, v \in ExpandValues}
    \cup {[Variables |-> <<[name |-> "A", value |-> v], [name |-> "B", value |-> w]>>,
           Paths |-> << >>] : v \in ExpandValues, w \in ExpandValues}

ExpandEnvironments ==
    {AmbientEnv, Append(AmbientEnv, [name |-> "A", value |-> <<"/ambient/a">>])}

ExpandTexts ==
    {<<"{A}">>, <<"{A}", "/", "{B}", "/", "{A}">>, <<"{HOME}", "/", "{NOPE}">>,
     <<"{B}", "/", "bin">>}

ExpandInputs ==
    UNION {[em : {a}, env : ExpandEnvironments, text : ExpandTexts,
            order : Orders(Len(a.Variables))] : a \in ExpandAccumulators}

ExpandInit ==
    /\ manifest = << >>
    /\ EngineInit
    /\ arg \in ExpandInputs
    /\ ret = << >>

\* one call em.ExpandVariables(arg.text)
CallExpandVariables ==
    /\ ret = << >>
    /\ ret' = <<ExpandVariables(arg.em, arg.env, arg.order, arg.text)>>
    /\ UNCHANGED <<registryVars, manifest, em, procEnv, pc, op, idx, statuses, remaining, result, calls,
                   log, checked, arg>>

SpecExpand == ExpandInit /\ [][CallExpandVariables]_vars

(***************************************************************************)
(* VerifyDependency against the clock.  The verify command runs under a    *)
(* context that expires Deadline seconds after its start: a process still  *)
(* running then is killed.  CombinedOutput returns once the process has    *)
(* ended and the pipe that carries its output is closed by every holder, a *)
(* descendant of the command included; ctx.Err() is read after that.       *)
(***************************************************************************)
Deadline == 30

\* one run of the verify command in seconds after its start:
\*   exitAt     when the process exits if it is left alone
\*   code       the exit code it exits with
\*   heldUntil  when the last descendant closes the output pipe (0: none)
Timings ==
    [exitAt : {1, 29, 45}, code : {0, 1}, heldUntil : {0, 40},
     output : {Version120, <<"e", "r", "r">>}]

Killed(t) == t.exitAt >= Deadline

ProcessEnd(t) == IF Killed(t) THEN Deadline ELSE t.exitAt

\* the moment CombinedOutput returns
ReturnAt(t) == IF t.heldUntil > ProcessEnd(t) THEN t.heldUntil ELSE ProcessEnd(t)

\* what VerifyDependency observes of the run: ctx.Err() after CombinedOutput
\* returned, the error of the command, the combined output
ObservedRun(t) ==
    [timeout |-> ReturnAt(t) >= Deadline,
     exit |-> IF Killed(t) THEN 0 - 1 ELSE t.code,
     output |-> t.output]

DeadlineInputs == [dep : {d \in VerifyDeps : d.Version.Constraint = << >>}, timing : Timings]

DeadlineInit ==
    /\ manifest = << >>
    /\ EngineInit
    /\ arg \in DeadlineInputs
    /\ ret = << >>

\* one call VerifyDependency(arg.dep) whose verify command runs as arg.timing
CallVerifyTimed ==
    /\ ret = << >>
    /\ ret' = <<VerifyDependency(Platform, arg.dep, ObservedRun(arg.timing))>>
    /\ UNCHANGED <<registryVars, manifest, em, procEnv, pc, op, idx, statuses, remaining, result, calls,
                   log, checked, arg>>

SpecDeadline == DeadlineInit /\ [][CallVerifyTimed]_vars

(***************************************************************************)
(* installDependency as a function of the bundle, of what the temporary    *)
(* directory and the download do, and of the install command's exit code.  *)
(***************************************************************************)
InstallTemplates ==
    {<<(<<"installer">>), (<<"-pkg">>), (<<"{download_path}">>)>>,
     <<(<<"sh">>), (<<"-c">>),
       (<<"cp", " ", "{download_path}", " ", "/opt", ";", "ls", " ", "{download_path}">>)>>,
     <<(<<"{download_path}">>), (<<"--log=", "{download_path}", ".log">>), (<<"-q">>)>>,
     <<(<<"apt-get">>), (<<"install">>), (<<"tool">>)>>,
     << >>}

InstallDeps ==
    {[Dep(Version120, << >>,
          [p \in {"linux"} |-> [URL |-> u, Checksum |-> << >>, Install |-> t,
                                Verify |-> VerifyCmd]],
          NoEnvironment) EXCEPT !.Name = "d1"]
        : u \in {<< >>, ToolConfig.URL}, t \in InstallTemplates}

InstallInputs == [dep : InstallDeps, net : EngineNets, exit : InstallExits]

InstallInit ==
    /\ manifest = << >>
    /\ EngineInit
    /\ arg \in InstallInputs
    /\ ret = << >>

\* one call installDependency(arg.dep)
CallInstallDependency ==
    /\ ret = << >>
    /\ ret' = <<installDependency(Platform, arg.dep, arg.net, arg.exit)>>
    /\ UNCHANGED <<registryVars, manifest, em, procEnv, pc, op, idx, statuses, remaining, result, calls,
                   log, checked, arg>>

SpecInstall == InstallInit /\ [][CallInstallDependency]_vars

(***************************************************************************)
(* The in-memory registry (src/unnamed/part_002): a map from name to       *)
(* Dependency behind a mutex, called from several goroutines.  A call is a *)
(* sequence of steps of its goroutine; the steps of different goroutines   *)
(* interleave.                                                             *)
(***************************************************************************)
MaxRegistryCalls == 3    \* registry calls started in one behaviour

RegistryNames == {"a", "b"}

engineVars == <<manifest, em, procEnv, pc, op, idx, statuses, remaining, result, calls,
                log, checked, arg, ret>>

\* registry calls started so far
Started == Len(history) + Cardinality({g \in Goroutines : goroutines[g].pc # "idle"})

\* goroutine g moves to position p
Goto(g, p) == goroutines' = [goroutines EXCEPT ![g].pc = p]

\* goroutine g enters a call of o on dep
Call(g, o, dep) ==
    /\ goroutines[g].pc = "idle"
    /\ Started < MaxRegistryCalls
    /\ goroutines' = [goroutines EXCEPT ![g] = [Idle EXCEPT !.pc = "lock", !.op = o,
                                                         !.dep = dep,
                                                         !.since = Len(history)]]
    /\ UNCHANGED <<engineVars, mu, dependencies, history>>

\* m.Add(dep): the version tells which goroutine the entry came from
Add(g) == \E n \in RegistryNames : Call(g, "Add", [Name |-> n, Version |-> g])

\* m.Remove(name)
Remove(g) == \E n \in RegistryNames : Call(g, "Remove", [Name |-> n, Version |-> ""])

\* m.List()
List(g) == Call(g, "List", Idle.dep)

\* m.mu.Lock() without waiting for the mutex to be free
LockUnguarded(g) ==
    /\ goroutines[g].pc = "lock"
    /\ mu' = g
    /\ Goto(g, "locked")
    /\ UNCHANGED <<engineVars, dependencies, history>>

\* m.mu.Lock(): blocks while another goroutine holds the mutex
Lock(g) ==
    /\ goroutines[g].pc = "lock"
    /\ mu = ""
    /\ mu' = g
    /\ Goto(g, "locked")
    /\ UNCHANGED <<engineVars, dependencies, history>>

\* Add: the test whether the name exists, and the error return
AddTest(g) ==
    /\ goroutines[g].pc = "locked"
    /\ goroutines[g].op = "Add"
    /\ IF goroutines[g].dep.Name \in DOMAIN dependencies
       THEN goroutines' = [goroutines EXCEPT ![g].pc = "unlock", ![g].err = "AlreadyExists"]
       ELSE Goto(g, "store")
    /\ UNCHANGED <<engineVars, mu, dependencies, history>>

\* Add: m.dependencies[dep.Name] = dep; return nil
AddStore(g) ==
    /\ goroutines[g].pc = "store"
    /\ dependencies' = Put(dependencies, goroutines[g].dep.Name, goroutines[g].dep)
    /\ Goto(g, "unlock")
    /\ UNCHANGED <<engineVars, mu, history>>

\* Remove: the test whether the name exists, and the error return
RemoveTest(g) ==
    /\ goroutines[g].pc = "locked"
    /\ goroutines[g].op = "Remove"
    /\ IF goroutines[g].dep.Name \notin DOMAIN dependencies
       THEN goroutines' = [goroutines EXCEPT ![g].pc = "unlock", ![g].err = "NotFound"]
       ELSE Goto(g, "delete")
    /\ UNCHANGED <<engineVars, mu, dependencies, history>>

\* Remove: delete(m.dependencies, name); return nil
RemoveDelete(g) ==
    /\ goroutines[g].pc = "delete"
    /\ dependencies' = [n \in DOMAIN dependencies \ {goroutines[g].dep.Name}
                            |-> dependencies[n]]
    /\ Goto(g, "unlock")
    /\ UNCHANGED <<engineVars, mu, history>>

\* List: deps := make([]Dependency, 0, len(m.dependencies))
ListMake(g) ==
    /\ goroutines[g].pc = "locked"
    /\ goroutines[g].op = "List"
    /\ goroutines' = [goroutines EXCEPT ![g].pc = "range", ![g].deps = << >>]
    /\ UNCHANGED <<engineVars, mu, dependencies, history>>

\* the names List has appended so far
Listed(g) == {goroutines[g].deps[i].Name : i \in 1..Len(goroutines[g].deps)}

\* List: one iteration of the range over the map, which yields the entries
\* in any order
ListNext(g) ==
    /\ goroutines[g].pc = "range"
    /\ \E n \in DOMAIN dependencies \ Listed(g) :
          goroutines' = [goroutines EXCEPT ![g].deps = Append(@, dependencies[n])]
    /\ UNCHANGED <<engineVars, mu, dependencies, history>>

\* List: the range is over; return deps
ListReturn(g) ==
    /\ goroutines[g].pc = "range"
    /\ DOMAIN dependencies \subseteq Listed(g)
    /\ Goto(g, "unlock")
    /\ UNCHANGED <<engineVars, mu, dependencies, history>>

\* the deferred m.mu.Unlock() and the return to the caller
Unlock(g) ==
    /\ goroutines[g].pc = "unlock"
    /\ mu' = ""
    /\ history' = Append(history, [g |-> g, op |-> goroutines[g].op,
                                   dep |-> goroutines[g].dep, err |-> goroutines[g].err,
                                   deps |-> goroutines[g].deps,
                                   since |-> goroutines[g].since])
    /\ goroutines' = [goroutines EXCEPT ![g] = Idle]
    /\ UNCHANGED <<engineVars, dependencies>>

RegistryInit ==
    /\ manifest = << >>
    /\ EngineInit
    /\ arg = << >>
    /\ ret = << >>

RegistryNext ==
    \E g \in Goroutines :
        \/ Add(g)
        \/ Remove(g)
        \/ List(g)
        \/ Lock(g)
        \/ AddTest(g)
        \/ AddStore(g)
        \/ RemoveTest(g)
        \/ RemoveDelete(g)
        \/ ListMake(g)
        \/ ListNext(g)
        \/ ListReturn(g)
        \/ Unlock(g)

SpecRegistry == RegistryInit /\ [][RegistryNext]_vars

(***************************************************************************)
(* Properties of EnsureDependencies and CheckAllDependencies.  log holds   *)
(* the verify runs, downloads, install commands and environment            *)
(* applications of the current invocation, in the order they happened.     *)
(***************************************************************************)
ManifestIndex(name) == CHOOSE i \in 1..Len(manifest) : manifest[i].Name = name

Transfers == {"download", "install"}

\* the steps of installDependency that can fail
InstallSteps == {"mkdtemp", "download", "install"}

InstallError(step) ==
    CASE step = "mkdtemp" -> "TempDirFailed"
      [] step = "download" -> "DownloadError"
      [] OTHER -> "InstallFailed"

\* EnsureDependencies got past validation and returned
EnsureReturned == pc = "returned" /\ op = "ensure" /\ ~result.nil

NeedsInstall(status) ==
    ~(status.Installed /\ status.Compatible /\ status.RequiredUpdate = NoUpdate)

\* C1: install commands run in manifest order: of two install commands of one
\* invocation, the earlier one belongs to the dependency listed earlier.
C1_InstallsInManifestOrder ==
    \A i, j \in 1..Len(log) :
        (i < j /\ log[i].op = "install" /\ log[j].op = "install")
            => ManifestIndex(log[i].name) < ManifestIndex(log[j].name)

\* C2: once a step of an installation (temporary directory, download, install
\* command) has failed, no download or install of any dependency follows in
\* the invocation, and the invocation has
\* returned that error with a non-nil map that has a key per dependency and
\* holds the failed dependency as not installed, with the error.
C2_InstallFailureAborts ==
    \A k \in 1..Len(log) :
        (log[k].op \in InstallSteps /\ ~log[k].ok) =>
            /\ \A j \in (k + 1)..Len(log) : log[j].op \notin InstallSteps
            /\ pc = "returned"
            /\ ~result.nil
            /\ result.err = InstallError(log[k].op)
            /\ DOMAIN result.statuses = Names
            /\ ~result.statuses[log[k].name].Installed
            /\ result.statuses[log[k].name].Error = result.err

\* an install command failed while another dependency still needed installing,
\* and that dependency was not touched
C2_Witness ==
    /\ pc = "returned"
    /\ \E k \in 1..Len(log) :
        /\ log[k].op = "install" /\ ~log[k].ok
        /\ \E n \in Names \ {log[k].name} :
            /\ NeedsInstall(result.statuses[n])
            /\ \A j \in 1..Len(log) : ~(log[j].op \in Transfers /\ log[j].name = n)

\* C3: an EnsureDependencies invocation that got past validation has applied
\* the accumulator to the process by the time it returns.
C3_AppliesBeforeReturn ==
    EnsureReturned => \E k \in 1..Len(log) : log[k].op = "apply"

\* C4: when EnsureDependencies returns, the map holds, for every dependency
\* whose install command succeeded, the status of the verify run made after
\* that install.
C4_FreshStatusAfterInstall ==
    EnsureReturned =>
        \A k \in 1..Len(log) :
            (log[k].op = "install" /\ log[k].ok) =>
                \E j \in (k + 1)..Len(log) :
                    /\ log[j].op = "verify"
                    /\ log[j].name = log[k].name
                    /\ result.statuses[log[k].name] = log[j].status

\* C5: no download and no install command is run for a dependency whose check
\* status is installed, compatible and NoUpdate; so an EnsureDependencies
\* invocation that finds every dependency up to date runs none at all.
C5_SkipsUpToDate ==
    /\ \A k \in 1..Len(log) :
        log[k].op \in Transfers => NeedsInstall(checked[log[k].name])
    /\ (EnsureReturned /\ \A n \in Names : ~NeedsInstall(checked[n]))
        => \A k \in 1..Len(log) : log[k].op \notin Transfers

\* a second invocation on an engine whose earlier EnsureDependencies installed
\* something finds everything up to date and returns
C5_Witness ==
    /\ EnsureReturned
    /\ calls = 2
    /\ em # NewEnvManager
    /\ Names # {}
    /\ result.err = NoError
    /\ \A n \in Names : ~NeedsInstall(checked[n])
    /\ \A k \in 1..Len(log) : log[k].op \notin Transfers

\* C6: for a manifest without validation errors CheckAllDependencies returns a
\* nil error and a map keyed by exactly the dependency names; every dependency
\* is verified, in order, and a failed verification (no verify command,
\* non-zero exit, timeout) is in that dependency's status.
C6_CheckAllIsolatesFailures ==
    (pc = "returned" /\ op = "check" /\ validateDependencies(Platform, manifest) = << >>) =>
        /\ ~result.nil
        /\ result.err = NoError
        /\ DOMAIN result.statuses = Names
        /\ Len(log) = Len(manifest)
        /\ \A i \in 1..Len(manifest) :
            /\ log[i].op = "verify"
            /\ log[i].name = manifest[i].Name
            /\ ~log[i].ok =>
                /\ ~result.statuses[manifest[i].Name].Installed
                /\ result.statuses[manifest[i].Name].Error
                        \in {"NoVerifyCommand", "VerifyFailed", "VerifyTimeout"}
                /\ (manifest[i].Platforms[Platform].Verify = << >>)
                        <=> (result.statuses[manifest[i].Name].Error = "NoVerifyCommand")

\* the first dependency failed to verify and the second one was verified
C6_Witness ==
    /\ pc = "returned" /\ op = "check"
    /\ Len(manifest) = 2
    /\ Len(log) = 2
    /\ ~log[1].ok
    /\ log[2].ok
    /\ result.statuses[manifest[1].Name].Error = "VerifyTimeout"
    /\ result.statuses[manifest[2].Name].Installed

\* C7: an invocation of CheckAllDependencies or EnsureDependencies on a
\* manifest with validation errors returns an error and no map, having started
\* no subprocess or download and left accumulator and process environment as
\* they were.
C7_ValidationAborts ==
    [][(calls' = calls + 1 /\ validateDependencies(Platform, manifest) # << >>) =>
            /\ pc' = "returned"
            /\ result'.nil
            /\ result'.err # NoError
            /\ log' = << >>
            /\ em' = em
            /\ procEnv' = procEnv]_vars

\* EnsureDependencies returned from a manifest with a valid and an invalid entry
C7_Witness ==
    /\ pc = "returned" /\ op = "ensure"
    /\ result.nil
    /\ result.err = "ValidationError"
    /\ Len(manifest) = 2
    /\ validateDependencies(Platform, <<manifest[1]>>) = << >>
    /\ log = << >>

\* C8: when EnsureDependencies returns a nil error, every status of the map
\* is installed, compatible and NoUpdate.
C8_NilErrorMeansUpToDate ==
    (EnsureReturned /\ result.err = NoError) =>
        \A n \in DOMAIN result.statuses : ~NeedsInstall(result.statuses[n])

(***************************************************************************)
(* Properties of CheckVersionUpdate (under SpecVersion) and of Download    *)
(* (under SpecDownload).                                                   *)
(***************************************************************************)
\* C9: for parseable versions with current >= required in semantic-version
\* order, CheckVersionUpdate returns NoUpdate.
C9_NeverSignalsDowngrade ==
    (/\ ret # << >>
     /\ NewVersion(arg.current).ok
     /\ NewVersion(arg.required).ok
     /\ VersionCompare(NewVersion(arg.current), NewVersion(arg.required)) >= 0)
        => (ret[1].err = NoError /\ ret[1].update = NoUpdate)

\* Download got as far as comparing the digest of the whole stream with the
\* requested sha256 checksum
ChecksumCompared ==
    /\ ret # << >>
    /\ Len(Split(arg.opts.Checksum, ":")) = 2
    /\ ToLower(Split(arg.opts.Checksum, ":")[1]) = Sha256Tag
    /\ ~arg.net.mkdirFails /\ ~arg.net.createFails /\ ~arg.net.getFails
    /\ arg.net.status = StatusOK
    /\ arg.net.written > Len(arg.net.body)

\* C10: after a Download that compared digests: if they differ, ignoring
\* case, the error is ChecksumMismatch and no file is at the destination; if
\* they agree, the call succeeded, the file holds the stream, and the result
\* carries its path, its size and the digest.
C10_ChecksumDecidesFile ==
    ChecksumCompared =>
        IF ToLower(EncodeToString(Sha256Sum(arg.net.body)))
                # ToLower(Split(arg.opts.Checksum, ":")[2])
        THEN ret[1].err = "ChecksumMismatch" /\ ~ret[1].file.exists
        ELSE /\ ret[1].err = NoError
             /\ ret[1].file = [exists |-> TRUE, data |-> arg.net.body]
             /\ ret[1].result.FilePath = ret[1].path
             /\ ret[1].result.Size = Len(arg.net.body)
             /\ ret[1].result.Checksum = EncodeToString(Sha256Sum(arg.net.body))

(***************************************************************************)
(* Properties of validateDependencies (under SpecValidate).                *)
(***************************************************************************)
\* "sha256:" followed by 64 hexadecimal digits
IsSha256Checksum(c) ==
    /\ Len(c) = 71
    /\ SubSeq(c, 1, 7) = Sha256Tag \o <<":">>
    /\ \A i \in 8..71 : \E h \in 1..16 : ToLower(<<c[i]>>) = <<HexDigits[h]>>

\* C11: a manifest validation accepts carries, in every active-platform
\* installer, no checksum or one of the form sha256:<64 hex digits>.
C11_AcceptedChecksumsWellFormed ==
    (ret # << >> /\ ret[1] = << >>) =>
        \A i \in 1..Len(manifest) :
            \/ manifest[i].Platforms[Platform].Checksum = << >>
            \/ IsSha256Checksum(manifest[i].Platforms[Platform].Checksum)

\* C12: validateDependencies reports no error exactly when the list is not
\* empty and every entry has a bundle for the active platform, a required
\* version, and a constraint that is empty or parses.
C12_ValidationExact ==
    ret # << >> =>
        ((ret[1] = << >>) <=>
            /\ Len(manifest) > 0
            /\ \A i \in 1..Len(manifest) :
                /\ Platform \in DOMAIN manifest[i].Platforms
                /\ manifest[i].Version.Required # << >>
                /\ \/ manifest[i].Version.Constraint = << >>
                   \/ NewConstraint(manifest[i].Version.Constraint).ok)

\* validation rejected a manifest whose only fault is the missing required
\* version of its second entry
C12_Witness ==
    /\ ret # << >>
    /\ ret[1] = <<"NoRequiredVersion">>
    /\ Len(manifest) = 2
    /\ manifest[2].Version.Required = << >>

(***************************************************************************)
(* Properties of FindDependencyFile and LoadDependencyConfig (SpecFind).   *)
(***************************************************************************)
Exists(path) == path \in arg.files \cup arg.dirs

\* C13: FindDependencyFile with a custom path fails with not-found when
\* neither the path nor its .yml variant exists, whatever exists in the
\* standard locations.
C13_CustomPathNotFound ==
    (/\ ret # << >>
     /\ ret[1].op = "find"
     /\ arg.customPath # << >>
     /\ ~Exists(arg.customPath)
     /\ ~Exists(arg.customPath \o <<".yml">>))
        => ret[1].out.err = "NotFound"

\* C14: with an explicit path P without .yml/.yaml extension that does not
\* exist while P.yml exists (and is well formed), FindDependencyFile returns
\* P.yml and LoadDependencyConfig loads P.yml.
C14_YmlVariantLoaded ==
    (/\ ret # << >>
     /\ arg.customPath # << >>
     /\ ~HasSuffix(arg.customPath, ".yml") /\ ~HasSuffix(arg.customPath, ".yaml")
     /\ ~Exists(arg.customPath)
     /\ (arg.customPath \o <<".yml">>) \in arg.files
     /\ ~arg.malformed)
        => ret[1].out = [path |-> arg.customPath \o <<".yml">>, err |-> NoError]

\* C15: FindDependencyFile with a custom path naming an existing directory
\* that contains app-dependencies.yml returns the path of that file.
C15_DirectoryResolvesToManifest ==
    (/\ ret # << >>
     /\ ret[1].op = "find"
     /\ arg.customPath \in arg.dirs
     /\ (arg.customPath \o <<"/">> \o ManifestName) \in arg.files)
        => ret[1].out = [path |-> arg.customPath \o <<"/">> \o ManifestName, err |-> NoError]

(***************************************************************************)
(* CheckAllDependencies has no effect outside its result (Spec).           *)
(***************************************************************************)
\* C16: every step of a CheckAllDependencies invocation leaves the manifest,
\* the environment accumulator and the process environment as they were,
\* and the invocation's external steps are verify commands only: no
\* download, no install command, no environment application.
C16_CheckAllReadOnly ==
    [][op' = "check" =>
            /\ manifest' = manifest
            /\ em' = em
            /\ procEnv' = procEnv
            /\ \A i \in 1..Len(log') : log'[i].op = "verify"]_vars

\* a CheckAllDependencies that returned after an EnsureDependencies had
\* filled the accumulator and changed the process environment
C16_Witness ==
    /\ op = "check"
    /\ pc = "returned"
    /\ result.err = NoError
    /\ Len(log) = Len(manifest)
    /\ Len(log) > 0
    /\ em # NewEnvManager
    /\ procEnv # AmbientEnv

(***************************************************************************)
(* Properties of the environment accumulator (SpecEnv).                    *)
(***************************************************************************)
\* the number of positions of seq that hold x
Occurrences(seq, x) == Cardinality({i \in 1..Len(seq) : seq[i] = x})

\* the entries of the PATH value that GetUpdatedEnvironment put first
MergedPathEntries(list) == Split(list[1].value, PathListSeparator)

\* the last call was AddPath of a path whose normal form was already held
AddedAgain ==
    /\ arg.call = "AddPath"
    /\ Occurrences(arg.before.Paths, Clean(arg.input)) > 0

\* C17 as stated: AddPath of a path that, normalized, is already held leaves
\* the path sequence unchanged, and the PATH of the merged environment has
\* exactly one entry for it.
C17_SingleEntryInMergedPath ==
    AddedAgain =>
        /\ em.Paths = arg.before.Paths
        /\ ret # << >> => Occurrences(MergedPathEntries(ret[1]), Clean(arg.input)) = 1

\* C17 (amended): AddPath of a path that, normalized, is already held leaves
\* the path sequence unchanged, so the merged PATH has exactly one entry for
\* it ahead of the process's own PATH value, whose entries follow as they were.
C17_AddPathIdempotent ==
    AddedAgain =>
        /\ em.Paths = arg.before.Paths
        /\ Occurrences(em.Paths, Clean(arg.input)) = 1
        /\ ret # << >> =>
              Occurrences(MergedPathEntries(ret[1]), Clean(arg.input))
                  = 1 + (IF GetenvOn(arg.goos, procEnv, PathVar(arg.goos, procEnv)) = << >>
                         THEN 0
                         ELSE Occurrences(Split(GetenvOn(arg.goos, procEnv,
                                                         PathVar(arg.goos, procEnv)),
                                                PathListSeparator),
                                          Clean(arg.input)))

\* a path added in another spelling of a path already held, then merged with
\* a process PATH that names another directory
C17_Witness ==
    /\ AddedAgain
    /\ arg.input # Clean(arg.input)
    /\ ret # << >>
    /\ Len(em.Paths) = 2
    /\ Occurrences(MergedPathEntries(ret[1]), Clean(arg.input)) = 1
    /\ Len(MergedPathEntries(ret[1])) = 3

(***************************************************************************)
(* The cascade of CheckVersionUpdate (SpecVersion).                        *)
(***************************************************************************)
\* both texts of the call parse as versions
BothParse == NewVersion(arg.current).ok /\ NewVersion(arg.required).ok

\* the class the cascade over (major, minor, patch) assigns
CascadeClass(c, r) ==
    IF VersionEqual(c, r) THEN NoUpdate
    ELSE IF c.major < r.major THEN MajorUpdate
    ELSE IF c.minor < r.minor THEN MinorUpdate
    ELSE IF c.patch < r.patch THEN PatchUpdate
    ELSE NoUpdate

\* C18: for parseable versions CheckVersionUpdate returns no error and the
\* class None when the versions are equal, otherwise Major when the current
\* major number is smaller, otherwise Minor when the current minor number is
\* smaller, otherwise Patch when the current patch number is smaller,
\* otherwise None.
C18_UpdateCascade ==
    (ret # << >> /\ BothParse) =>
        ret[1] = [update |-> CascadeClass(NewVersion(arg.current), NewVersion(arg.required)),
                  err |-> NoError]

\* a call classified Minor where the current patch number is smaller as well:
\* the minor numbers decide before the patch numbers are looked at
C18_Witness ==
    /\ ret # << >>
    /\ BothParse
    /\ ret[1].update = MinorUpdate
    /\ NewVersion(arg.current).major = NewVersion(arg.required).major
    /\ NewVersion(arg.current).patch < NewVersion(arg.required).patch

(***************************************************************************)
(* The status VerifyDependency builds from the output (SpecVerify).        *)
(***************************************************************************)
\* the verify command of the call was started and exited zero in time
ExitedZero ==
    /\ GetPlatformConfig(Platform, arg.dep).ok
    /\ Len(GetPlatformConfig(Platform, arg.dep).config.Verify) > 0
    /\ ~arg.run.timeout
    /\ arg.run.exit = 0

\* the version VerifyDependency reads out of the output of the call
ReportedVersion == extractVersion(TrimSpace(arg.run.output))

\* C19: when the verify command exits zero the status is installed, its
\* current version is extractVersion of the trimmed output, its required
\* update is CheckVersionUpdate(current, required), and it is compatible as
\* IsVersionCompatible(current, constraint) says when a constraint is given
\* and compatible when none is; so an output equal to the required version
\* with no constraint gives installed, no update, compatible.
C19_StatusFromOutput ==
    (ret # << >> /\ ExitedZero) =>
        /\ ret[1].status.Installed
        /\ ret[1].status.CurrentVersion = ReportedVersion
        /\ ret[1].status.RequiredUpdate
              = CheckVersionUpdate(ReportedVersion, arg.dep.Version.Required).update
        /\ ret[1].status.Compatible
              = IF arg.dep.Version.Constraint # << >>
                THEN IsVersionCompatible(ReportedVersion, arg.dep.Version.Constraint).compatible
                ELSE TRUE
        /\ (arg.run.output = arg.dep.Version.Required /\ arg.dep.Version.Constraint = << >>)
              => /\ ret[1].status.RequiredUpdate = NoUpdate
                 /\ ret[1].status.Compatible
                 /\ ret[1].status.Error = NoError

\* the end-to-end case: the output is the required version, no constraint
C19_Witness ==
    /\ ret # << >>
    /\ ExitedZero
    /\ arg.run.output = arg.dep.Version.Required
    /\ arg.dep.Version.Required = Version130
    /\ arg.dep.Version.Constraint = << >>
    /\ ret[1].status.Installed
    /\ ret[1].status.Compatible

(***************************************************************************)
(* What extractVersion returns (SpecExtract).                              *)
(***************************************************************************)
\* t reads MAJOR.MINOR.PATCH: three non-empty runs of digits separated by dots
IsCore(t) ==
    \E a, b \in 1..Len(t) :
        /\ 1 < a /\ a + 1 < b /\ b < Len(t)
        /\ t[a] = "." /\ t[b] = "."
        /\ \A k \in (1..Len(t)) \ {a, b} : t[k] \in Digits

\* the positions of s at which a MAJOR.MINOR.PATCH token starts
CoreStarts(s) == {i \in 1..Len(s) : \E e \in i..Len(s) : IsCore(SubSeq(s, i, e))}

\* the longest MAJOR.MINOR.PATCH token that starts at i
LongestCoreAt(s, i) ==
    SubSeq(s, i, CHOOSE e \in i..Len(s) :
                    /\ IsCore(SubSeq(s, i, e))
                    /\ \A f \in (e + 1)..Len(s) : ~IsCore(SubSeq(s, i, f)))

\* the first MAJOR.MINOR.PATCH token of s
FirstCore(s) ==
    LongestCoreAt(s, CHOOSE i \in CoreStarts(s) : \A j \in CoreStarts(s) : i <= j)

\* C20: extractVersion returns the MAJOR.MINOR.PATCH digits of the first
\* such token of the text, without a v before it and without a - or + suffix
\* after it, and returns the text itself when it holds no such token.
C20_ExtractsFirstCore ==
    ret # << >> =>
        ret[1] = IF CoreStarts(arg) = {} THEN arg ELSE FirstCore(arg)

\* a text with a v prefix, a suffix and words around the token
C20_Witness ==
    /\ ret # << >>
    /\ Len(arg) > MaxText
    /\ \E i \in CoreStarts(arg) : i > 2 /\ arg[i - 1] = "v"
    /\ \E k \in 1..Len(arg) : arg[k] = "+"
    /\ ret[1] = <<"1", "0", ".", "2", ".", "3">>

(***************************************************************************)
(* Response status and leftover files of Download (SpecDownload).          *)
(***************************************************************************)
\* Download received a response: directory and file were created, GET returned
ResponseReceived ==
    /\ ret # << >>
    /\ ~arg.net.mkdirFails /\ ~arg.net.createFails /\ ~arg.net.getFails

\* C21: a Download that received a response fails with BadStatus exactly
\* when the status is outside 200..299; with a 2xx status it goes on to the
\* checksum tag and the copy of the body.
C21_BadStatusIffNot2xx ==
    ResponseReceived =>
        (ret[1].err = "BadStatus" <=> arg.net.status \notin StatusOK..(StatusOK + 99))

\* C30: whenever Download returns an error, no file exists at the destination
\* path afterwards.
C30_NoFileAfterError ==
    (ret # << >> /\ ret[1].err # NoError) => ~ret[1].file.exists

(***************************************************************************)
(* The platform bundle of a dependency (SpecPlatform).                     *)
(***************************************************************************)
\* the platform in force: the override when one was given, else the host
ActivePlatform == IF arg.opts = << >> THEN arg.goos ELSE arg.opts[Len(arg.opts)]

\* C22: GetPlatformConfig returns the bundle stored under the active platform
\* and fails exactly when the dependency has no entry for it; the active
\* platform is the override when one is given and the host system otherwise.
C22_BundleOfActivePlatform ==
    ret # << >> =>
        IF ActivePlatform \in DOMAIN arg.dep.Platforms
        THEN ret[1] = [ok |-> TRUE, config |-> arg.dep.Platforms[ActivePlatform]]
        ELSE ~ret[1].ok

\* an override to a platform the dependency lacks, on a host it supports
C22_Witness ==
    /\ ret # << >>
    /\ arg.opts # << >>
    /\ arg.goos \in DOMAIN arg.dep.Platforms
    /\ ActivePlatform \notin DOMAIN arg.dep.Platforms
    /\ ~ret[1].ok

(***************************************************************************)
(* Unparsable input of the version operations (SpecVersionOps).            *)
(***************************************************************************)
\* C23: CheckVersionUpdate returns an error, with the class None, exactly
\* when the current or the required text is not a version; and
\* IsVersionCompatible returns an error, with false, exactly when the
\* version or the constraint does not parse.
C23_UnparsableInputIsError ==
    ret # << >> =>
        IF ret[1].op = "CheckVersionUpdate"
        THEN /\ ret[1].out.err # NoError
                    <=> (~NewVersion(arg.current).ok \/ ~NewVersion(arg.required).ok)
             /\ ret[1].out.err # NoError => ret[1].out.update = NoUpdate
        ELSE /\ ret[1].out.err # NoError
                    <=> (~NewVersion(arg.current).ok \/ ~NewConstraint(arg.constraint).ok)
             /\ ret[1].out.err # NoError => ~ret[1].out.compatible

\* IsVersionCompatible on a version that parses and a constraint that does not
C23_Witness ==
    /\ ret # << >>
    /\ ret[1].op = "IsVersionCompatible"
    /\ NewVersion(arg.current).ok
    /\ arg.constraint # << >>
    /\ ~NewConstraint(arg.constraint).ok
    /\ ret[1].out = [compatible |-> FALSE, err |-> "InvalidConstraint"]

(***************************************************************************)
(* The list GetUpdatedEnvironment returns (SpecEnv).                       *)
(***************************************************************************)
\* the values the entries of list give to name
ValuesOf(list, name) == {list[i].value : i \in {k \in 1..Len(list) : list[k].name = name}}

\* the name PATH goes by for the call, and the names the accumulator touches
MergedPathVar == PathVar(arg.goos, procEnv)

TouchedNames ==
    {em.Variables[i].name : i \in 1..Len(em.Variables)}
        \cup (IF Len(em.Paths) > 0 THEN {MergedPathVar} ELSE {})

\* C24: in the list GetUpdatedEnvironment returns, every process variable the
\* accumulator does not touch keeps its value, every accumulated variable has
\* its accumulated value and no other, and, when paths were accumulated, PATH
\* is the accumulated paths in insertion order followed by the process's PATH.
C24_MergedEnvironmentContent ==
    ret # << >> =>
        /\ \A i \in 1..Len(procEnv) :
              procEnv[i].name \notin TouchedNames
                  => ValuesOf(ret[1], procEnv[i].name) = {procEnv[i].value}
        /\ \A i \in 1..Len(em.Variables) :
              ValuesOf(ret[1], em.Variables[i].name) = {em.Variables[i].value}
        /\ Len(em.Paths) > 0
              => ValuesOf(ret[1], MergedPathVar)
                    = {NewPath(JoinPaths(em.Paths),
                               GetenvOn(arg.goos, procEnv, MergedPathVar))}

\* the names of the entries of a list
NamesOf(list) == {list[i].name : i \in 1..Len(list)}

\* two environments give every name the same values
SameMapping(a, b) ==
    /\ NamesOf(a) = NamesOf(b)
    /\ \A n \in NamesOf(a) : ValuesOf(a, n) = ValuesOf(b, n)

\* C25: after a successful ApplyToCurrentProcess the process environment,
\* read as a mapping from names to values, is the mapping
\* GetUpdatedEnvironment would have returned just before the call.
C25_ApplyEqualsMerged ==
    (arg.call = "ApplyToCurrentProcess" /\ arg.input.err = NoError) =>
        \A order \in Orders(Len(em.Variables)) :
            SameMapping(procEnv,
                        GetUpdatedEnvironment(arg.before, arg.input.env, order, arg.goos))

(***************************************************************************)
(* The accumulator over the life of an engine (Spec).                      *)
(***************************************************************************)
\* the entries of the PATH of the process
ProcessPathEntries == Split(Getenv(procEnv, "PATH"), PathListSeparator)

\* C26: after every EnsureDependencies that returned without error, each
\* accumulated path (none of which the process PATH held at the start)
\* occurs exactly once in the process PATH, and exactly once in the PATH of
\* the list GetUpdatedEnvironment returns then.
C26_NoDuplicatePathEntries ==
    (pc = "returned" /\ op = "ensure" /\ ~result.nil /\ result.err = NoError) =>
        \A i \in 1..Len(em.Paths) :
            /\ Occurrences(ProcessPathEntries, em.Paths[i]) = 1
            /\ \A order \in Orders(Len(em.Variables)) :
                  Occurrences(MergedPathEntries(
                                  GetUpdatedEnvironment(em, procEnv, order, Platform)),
                              em.Paths[i]) = 1

\* the environment of dependency `name` was recorded in this step
SetUpFrom(name) ==
    \E order \in Orders(Len(FindDependency(name).Environment.Variables)),
       xorder \in MapOrders(Len(em.Variables)
                            + Len(FindDependency(name).Environment.Variables)) :
        em' = setupDependencyEnvironment(em, procEnv, FindDependency(name), order, xorder)

\* C27: the accumulator changes only in a step in which the install command
\* of a dependency exited successfully, and then by the paths and variables
\* of that dependency's environment; a check, a dependency passed over as up
\* to date and a failed install leave it as it was.
C27_AccumulatorOnlyFromInstalls ==
    [][em' # em =>
            \E i \in (Len(log) + 1)..Len(log') :
                /\ log'[i].op = "install"
                /\ log'[i].ok
                /\ SetUpFrom(log'[i].name)]_vars

\* an EnsureDependencies that returned an install failure of one dependency
\* after the install of another had filled the accumulator
C27_Witness ==
    /\ pc = "returned"
    /\ op = "ensure"
    /\ result.err = "InstallFailed"
    /\ em.Paths # << >>
    /\ \E i \in 1..Len(log) : log[i].op = "install" /\ log[i].ok
    /\ \E i \in 1..Len(log) : log[i].op = "install" /\ ~log[i].ok

(***************************************************************************)
(* The skip test of the install loop on the status a check records         *)
(* (SpecVerify).                                                           *)
(***************************************************************************)
\* C28: a status in which the check recorded an error is never passed over
\* as up to date by the install loop of EnsureDependencies.
C28_ErrorNeverSkipped ==
    (ret # << >> /\ ret[1].status.Error # NoError) => ~UpToDate(ret[1].status)

(***************************************************************************)
(* EnsureDependencies on a validated manifest (Spec).                      *)
(***************************************************************************)
\* C29: on a manifest that validateDependencies accepts, EnsureDependencies
\* never ends in a run-time panic: a dependency that needs installation and
\* has an empty install command gives an install error in its status.
C29_NoPanicOnValidManifest ==
    (op = "ensure" /\ Len(validateDependencies(Platform, manifest)) = 0) =>
        /\ pc # "panicked"
        /\ \A i \in 1..Len(manifest) :
              (/\ pc = "returned"
               /\ manifest[i].Name \in DOMAIN statuses
               /\ ~UpToDate(statuses[manifest[i].Name])
               /\ Len(manifest[i].Platforms[Platform].Install) = 0)
                  => result.err # NoError

(***************************************************************************)
(* What ExpandVariables returns (SpecExpand).                              *)
(***************************************************************************)
\* every token of text that is the placeholder of a variable of pairs replaced
\* by that variable's value, every other token kept
RECURSIVE Substitute(_, _)
Substitute(text, pairs) ==
    IF text = << >> THEN << >>
    ELSE (IF \E i \in 1..Len(pairs) : Placeholder(pairs[i].name) = text[1]
          THEN pairs[CHOOSE i \in 1..Len(pairs) : Placeholder(pairs[i].name) = text[1]].value
          ELSE <<text[1]>>)
         \o Substitute(Tail(text), pairs)

\* C31: ExpandVariables replaces every {name} token that names an
\* accumulator variable by the accumulator's value, then every remaining
\* {name} token that names a process variable by its value, and leaves every
\* other token as it is.
C31_ExpandReplacesTokens ==
    ret # << >> => ret[1] = Substitute(Substitute(arg.text, arg.em.Variables), arg.env)

\* C32: ExpandVariables returns the same text whatever the order in which the
\* accumulator's variables are visited.
C32_ExpandDeterministic ==
    ret # << >> =>
        \A order \in Orders(Len(arg.em.Variables)) :
            ExpandVariables(arg.em, arg.env, order, arg.text) = ret[1]

(***************************************************************************)
(* The environment a dependency declares, after its install (Spec).        *)
(***************************************************************************)
\* C33: once the install command of a dependency has exited successfully,
\* each PATH fragment the dependency declares is among the accumulated paths
\* with every {V} token of a variable V the same dependency declares
\* replaced by the value it declares for V.
C33_PathUsesOwnVariables ==
    \A i \in 1..Len(log) :
        (log[i].op = "install" /\ log[i].ok) =>
            \A k \in 1..Len(FindDependency(log[i].name).Environment.Path) :
                \E j \in 1..Len(em.Paths) :
                    em.Paths[j] =
                        Clean(Substitute(FindDependency(log[i].name).Environment.Path[k],
                                         FindDependency(log[i].name).Environment.Variables))

(***************************************************************************)
(* The names of the list GetUpdatedEnvironment returns (SpecEnv).          *)
(***************************************************************************)
\* C34: the list GetUpdatedEnvironment returns holds at most one entry for
\* each variable name.
C34_OneEntryPerName ==
    ret # << >> =>
        \A i \in 1..Len(ret[1]) : \A j \in 1..Len(ret[1]) :
            ret[1][i].name = ret[1][j].name => i = j

(***************************************************************************)
(* Failures of the version comparison inside VerifyDependency (SpecVerify).*)
(***************************************************************************)
\* the current version VerifyDependency compares: the extracted version, or
\* the trimmed output when none is extracted
CurrentOfRun == IF ReportedVersion # << >> THEN ReportedVersion ELSE TrimSpace(arg.run.output)

UpdateCheckFails ==
    /\ arg.dep.Version.Required # << >>
    /\ CheckVersionUpdate(CurrentOfRun, arg.dep.Version.Required).err # NoError

CompatibleCheckFails ==
    /\ arg.dep.Version.Constraint # << >>
    /\ IsVersionCompatible(CurrentOfRun, arg.dep.Version.Constraint).err # NoError

\* C35: when the verify command exited zero and CheckVersionUpdate or
\* IsVersionCompatible fails, VerifyDependency returns a nil error and a
\* status that is installed and carries the failure in its Error field (the
\* one of IsVersionCompatible when both fail); with the nil error a caller
\* such as CheckAllDependencies goes on to the next dependency.
C35_ClassificationFailureRecorded ==
    (ret # << >> /\ ExitedZero /\ (UpdateCheckFails \/ CompatibleCheckFails)) =>
        /\ ret[1].err = NoError
        /\ ret[1].status.Installed
        /\ ret[1].status.Error # NoError
        /\ ret[1].status.Error =
              IF CompatibleCheckFails
              THEN IsVersionCompatible(CurrentOfRun, arg.dep.Version.Constraint).err
              ELSE CheckVersionUpdate(CurrentOfRun, arg.dep.Version.Required).err

\* the command printed text that holds no version, the dependency has a
\* required version and no constraint: the update check failed and was recorded
C35_Witness ==
    /\ ret # << >>
    /\ ExitedZero
    /\ arg.run.output = <<"g", "a", "r", "b", "a", "g", "e">>
    /\ arg.dep.Version.Required = Version120
    /\ arg.dep.Version.Constraint = << >>
    /\ UpdateCheckFails
    /\ ret[1].err = NoError
    /\ ret[1].status.Installed
    /\ ret[1].status.Error # NoError

(***************************************************************************)
(* A manifest entry without a verify command (SpecVerify).                 *)
(***************************************************************************)
\* C37: for a dependency whose bundle for the platform has an empty verify
\* command, VerifyDependency starts no subprocess and returns the error "no
\* verification command" together with a status that is not installed and
\* carries that error.
C37_NoVerifyCommand ==
    (/\ ret # << >>
     /\ GetPlatformConfig(Platform, arg.dep).ok
     /\ Len(GetPlatformConfig(Platform, arg.dep).config.Verify) = 0) =>
        /\ ret[1].err = "NoVerifyCommand"
        /\ ~ret[1].ran
        /\ ~ret[1].status.Installed
        /\ ret[1].status.Error = "NoVerifyCommand"

\* a bundle for linux with an empty verify command was verified, with a run
\* that would have exited zero had it been started
C37_Witness ==
    /\ ret # << >>
    /\ "linux" \in DOMAIN arg.dep.Platforms
    /\ arg.dep.Platforms["linux"].Verify = << >>
    /\ arg.run.exit = 0
    /\ ~arg.run.timeout
    /\ ret[1].err = "NoVerifyCommand"
    /\ ~ret[1].ran

(***************************************************************************)
(* Timeout and failure of the verify command (SpecDeadline).               *)
(***************************************************************************)
\* the verify command of the call was started
VerifyStarted ==
    /\ GetPlatformConfig(Platform, arg.dep).ok
    /\ Len(GetPlatformConfig(Platform, arg.dep).config.Verify) > 0

\* C36: a verify command still running at the deadline of 30 seconds is
\* killed and VerifyDependency returns the timeout error; a verify command
\* that exits non-zero before the deadline gives the error "verification
\* failed", never the timeout error; the status is not installed in both
\* cases.
C36_TimeoutDistinctFromFailure ==
    (ret # << >> /\ VerifyStarted) =>
        /\ arg.timing.exitAt >= Deadline =>
              (ret[1].err = "VerifyTimeout" /\ ~ret[1].status.Installed)
        /\ (arg.timing.exitAt < Deadline /\ arg.timing.code # 0) =>
              (ret[1].err = "VerifyFailed" /\ ~ret[1].status.Installed)

(***************************************************************************)
(* The install command installDependency runs (SpecInstall).               *)
(***************************************************************************)
\* the bundle of the call
InstallBundle == arg.dep.Platforms[Platform]

\* where the download of the call is stored: the temporary directory joined
\* with the last element of the URL; empty when the bundle has no URL
DownloadedPath ==
    IF InstallBundle.URL = << >> THEN << >>
    ELSE TempDir \o <<"/", InstallBundle.URL[Len(InstallBundle.URL)]>>

\* C38: the install command that is run is the install template with every
\* {download_path} in every argument replaced by the path of the downloaded
\* file, or by the empty text when the bundle has no URL; number, order and
\* the rest of the arguments are those of the template; with a URL the
\* download has succeeded before the install command is started.
C38_InstallCommandFromTemplate ==
    ret # << >> =>
        \A i \in 1..Len(ret[1].events) :
            ret[1].events[i].op = "install" =>
                /\ Len(ret[1].events[i].cmd) = Len(InstallBundle.Install)
                /\ \A k \in 1..Len(InstallBundle.Install) :
                      ret[1].events[i].cmd[k]
                        = Substitute(InstallBundle.Install[k],
                                     <<[name |-> "download_path", value |-> DownloadedPath]>>)
                /\ InstallBundle.URL # << >> =>
                      \E j \in 1..(i - 1) :
                          ret[1].events[j].op = "download" /\ ret[1].events[j].ok

\* an install command with {download_path} in its first and second argument
\* was run after a download
C38_Witness ==
    /\ ret # << >>
    /\ InstallBundle.URL # << >>
    /\ Len(InstallBundle.Install) = 3
    /\ InstallBundle.Install[1] = <<"{download_path}">>
    /\ \E i \in 1..Len(ret[1].events) :
          /\ ret[1].events[i].op = "install"
          /\ ret[1].events[i].ok
          /\ ret[1].events[i].cmd[1] = DownloadedPath
          /\ ret[1].events[i].cmd[2] = <<"--log=">> \o DownloadedPath \o <<".log">>

(***************************************************************************)
(* How often a command of one dependency runs in one invocation (Spec).    *)
(***************************************************************************)
\* the entries of the history of the current invocation that record step o
\* of dependency name
StepsOf(o, name) == {i \in 1..Len(log) : log[i].op = o /\ log[i].name = name}

\* C39: within one invocation of EnsureDependencies or CheckAllDependencies
\* the download and the install command of a dependency run at most once
\* and its verify command at most twice (the check and the verification
\* after the install); nothing of a dependency runs after its temporary
\* directory, download or install command failed.
C39_NoRetry ==
    \A i \in 1..Len(log) :
        /\ log[i].op \in {"mkdtemp", "download", "install"} =>
              /\ Cardinality(StepsOf(log[i].op, log[i].name)) = 1
              /\ ~log[i].ok => \A j \in (i + 1)..Len(log) : log[j].name # log[i].name
        /\ log[i].op = "verify" => Cardinality(StepsOf("verify", log[i].name)) <= 2

\* an EnsureDependencies that returned after one dependency was downloaded
\* once, installed once and verified twice, the second verification finding
\* it still not up to date
C39_Witness ==
    /\ pc = "returned"
    /\ op = "ensure"
    /\ ~result.nil
    /\ result.err = NoError
    /\ \E n \in DOMAIN result.statuses :
          /\ Cardinality(StepsOf("download", n)) = 1
          /\ Cardinality(StepsOf("install", n)) = 1
          /\ Cardinality(StepsOf("verify", n)) = 2
          /\ ~UpToDate(result.statuses[n])

(***************************************************************************)
(* The registry under concurrent calls (SpecRegistry).                     *)
(***************************************************************************)
\* goroutine g is between m.mu.Lock() and the deferred m.mu.Unlock()
InCritical(g) == goroutines[g].pc \in {"locked", "store", "delete", "range", "unlock"}

\* the effect of one completed call on the set of entries
ApplyCall(entries, c) ==
    IF c.op = "Add" /\ c.err = NoError THEN Put(entries, c.dep.Name, c.dep)
    ELSE IF c.op = "Remove" /\ c.err = NoError
         THEN [n \in DOMAIN entries \ {c.dep.Name} |-> entries[n]]
    ELSE entries

\* the entries added and not yet removed by the first n completed calls
RECURSIVE Entries(_)
Entries(n) ==
    IF n = 0 THEN [x \in {} |-> Idle.dep] ELSE ApplyCall(Entries(n - 1), history[n])

\* C40: Add, Remove and List exclude one another: at most one goroutine is
\* between Lock and Unlock, and it holds the mutex.  Taken in the order of
\* their Unlock, an Add succeeds exactly when its name is not among the
\* entries added and not yet removed, a Remove exactly when it is, a failed
\* call changes nothing, and a List returns exactly those entries, each
\* once; so of several Add calls of one name with no Remove of it in between
\* exactly the first one succeeds.  The map holds each entry under its own
\* name, and with the mutex free it holds exactly the entries added and not
\* yet removed.
C40_RegistryUnderLock ==
    /\ \A g \in Goroutines : InCritical(g) => mu = g
    /\ \A g \in Goroutines, h \in Goroutines : (InCritical(g) /\ InCritical(h)) => g = h
    /\ \A n \in DOMAIN dependencies : dependencies[n].Name = n
    /\ mu = "" => dependencies = Entries(Len(history))
    /\ \A i \in 1..Len(history) :
          /\ history[i].op = "Add" =>
                (history[i].err = NoError <=> history[i].dep.Name \notin DOMAIN Entries(i - 1))
          /\ history[i].op = "Remove" =>
                (history[i].err = NoError <=> history[i].dep.Name \in DOMAIN Entries(i - 1))
          /\ history[i].op = "List" =>
                /\ Len(history[i].deps) = Cardinality(DOMAIN Entries(i - 1))
                /\ {history[i].deps[k] : k \in 1..Len(history[i].deps)}
                      = {Entries(i - 1)[n] : n \in DOMAIN Entries(i - 1)}
    /\ \A i \in 1..Len(history) : \A j \in (i + 1)..Len(history) :
          (/\ history[i].op = "Add"
           /\ history[j].op = "Add"
           /\ history[i].dep.Name = history[j].dep.Name
           /\ history[i].err = NoError
           /\ history[j].err = NoError) =>
              \E k \in (i + 1)..(j - 1) :
                  /\ history[k].op = "Remove"
                  /\ history[k].dep.Name = history[i].dep.Name
                  /\ history[k].err = NoError

\* two goroutines called Add with one name while neither call had returned;
\* the first to get the mutex succeeded, the other failed, and a List called
\* afterwards returned the one entry
C40_Witness ==
    /\ Len(history) = 3
    /\ history[1].op = "Add"
    /\ history[2].op = "Add"
    /\ history[1].dep.Name = history[2].dep.Name
    /\ history[1].g # history[2].g
    /\ history[2].since = 0
    /\ history[1].err = NoError
    /\ history[2].err = "AlreadyExists"
    /\ history[3].op = "List"
    /\ history[3].deps = <<history[1].dep>>

====
